---------------------------- MODULE Spec2Model ----------------------------
(***************************************************************************)
(* A model of cash-projections (src/src/main.rs): the frequency and type   *)
(* parsers, CashEvent::get_monthly_amount, the calendar walk               *)
(* get_first_day_of_months_between and the report driver main.             *)
(*                                                                         *)
(* Dates are records [year, month, day] of the proleptic Gregorian         *)
(* calendar (chrono::NaiveDate).  Money is an exact integer count of       *)
(* Unit-ths of a dollar, so that the tax factor (a rate in thousandths)    *)
(* and every frequency factor (30, 4.5, 2.25, 1, 1/3, 1/12) are exact;     *)
(* the rounding of f64 arithmetic is not modelled.                         *)
(***************************************************************************)
EXTENDS Integers, Sequences, FiniteSets, TLC

VARIABLES
    pc,          \* position of the run / of the function under test
    argv,        \* main: the arguments of the command line
    args,        \* main: the parsed command line (Args), None before line 262
    now,         \* main: the local calendar date at invocation
    file,        \* main: the input file, NoFile or a sequence of rows
    start_date,  \* main / calendar walk: start_date
    end_date,    \* main / calendar walk: end_date
    dates,       \* main / calendar walk: the enumerated first-of-months
    events,      \* main: Vec<CashEvent> loaded so far
    row_idx,     \* main: number of rows consumed by the reader
    date_idx,    \* main: number of dates consumed by the report loop
    sum,         \* main: the running cumulative total
    stdout,      \* main: the lines written to standard output, in order
    panic,       \* main: the message of the panic that ended the run, or None
    stderr,      \* main: the lines written to standard error, in order
    exit_code,   \* main: the exit status of the process, None while it runs
    row,         \* event check: the raw row under test
    month_date,  \* event check: the projected month (a first-of-month date)
    tax_rate,    \* event check: the tax rate, in thousandths
    parsed,      \* event check: the result of deserializing the row
    amount       \* event check: the result of get_monthly_amount

vars == <<pc, argv, args, now, file, start_date, end_date, dates, events, row_idx,
          date_idx, sum, stdout, panic, stderr, exit_code, row, month_date,
          tax_rate, parsed, amount>>

mainVars == <<argv, args, now, file, events, row_idx, date_idx, sum, stdout, panic,
              stderr, exit_code>>
walkVars == <<start_date, end_date, dates>>
eventVars == <<row, month_date, tax_rate, parsed, amount>>

\* Option::None.  Every optional value is a record, so that it compares with None.
None == [none |-> TRUE]

-----------------------------------------------------------------------------
(* Bounds of the model. *)

\* Years of the sampled dates: 2023 .. 2022 + NumYears (2024 is a leap year).
NumYears == 2
\* Horizons 0 .. MaxMonths are projected, besides the default and an overflowing one.
MaxMonths == 3
\* Input files hold at most MaxRows rows.
MaxRows == 2

Years == 2023..(2022 + NumYears)

-----------------------------------------------------------------------------
(* chrono::NaiveDate *)

\* chrono: MAX_YEAR = (i32::MAX >> 13) - 1 and MIN_YEAR = i32::MIN >> 13 + 1;
\* NaiveDate::MAX is December 31 of MAX_YEAR, NaiveDate::MIN January 1 of MIN_YEAR.
MAX_YEAR == 2^18 - 2
MIN_YEAR == 1 - 2^18

IsLeapYear(y) == (y % 4 = 0 /\ y % 100 # 0) \/ y % 400 = 0

DaysInMonth(y, m) ==
    IF m = 2 THEN (IF IsLeapYear(y) THEN 29 ELSE 28)
    ELSE IF m \in {4, 6, 9, 11} THEN 30 ELSE 31

\* NaiveDate::from_ymd_opt
from_ymd_opt(y, m, d) ==
    IF m \in 1..12 /\ d >= 1 /\ d <= DaysInMonth(y, m) /\ y >= MIN_YEAR /\ y <= MAX_YEAR
    THEN [year |-> y, month |-> m, day |-> d]
    ELSE None

\* NaiveDate's ordering is chronological.
DateLT(a, b) ==
    \/ a.year < b.year
    \/ a.year = b.year /\ a.month < b.month
    \/ a.year = b.year /\ a.month = b.month /\ a.day < b.day

DateLE(a, b) == a = b \/ DateLT(a, b)

\* Datelike::with_day
with_day(date, d) == from_ymd_opt(date.year, date.month, d)

\* Days since 1970-01-01 of a date, and the date of a day number (the
\* calendar arithmetic behind NaiveDate's day-based operations).
days_from_civil(date) ==
    LET y == IF date.month <= 2 THEN date.year - 1 ELSE date.year
        era == y \div 400
        yoe == y - era * 400
        mp == IF date.month > 2 THEN date.month - 3 ELSE date.month + 9
        doy == (153 * mp + 2) \div 5 + date.day - 1
        doe == yoe * 365 + yoe \div 4 - yoe \div 100 + doy
    IN  era * 146097 + doe - 719468

civil_from_days(n) ==
    LET z == n + 719468
        era == z \div 146097
        doe == z - era * 146097
        yoe == (doe - doe \div 1460 + doe \div 36524 - doe \div 146096) \div 365
        doy == doe - (365 * yoe + yoe \div 4 - yoe \div 100)
        mp == (5 * doy + 2) \div 153
        d == doy - (153 * mp + 2) \div 5 + 1
        m == IF mp < 10 THEN mp + 3 ELSE mp - 9
        y == yoe + era * 400 + (IF m <= 2 THEN 1 ELSE 0)
    IN  from_ymd_opt(y, m, d)

\* NaiveDate::checked_add_signed(Duration::days(k)), k >= 0
checked_add_days(date, k) == civil_from_days(days_from_civil(date) + k)

Min(a, b) == IF a <= b THEN a ELSE b

\* checked_add_months failing, instead of clamping, when the target month
\* lacks the day.
checked_add_months_no_clamp(date, months) ==
    IF months > 12 * (MAX_YEAR - MIN_YEAR + 1) THEN None
    ELSE LET total == date.year * 12 + (date.month - 1) + months
         IN  from_ymd_opt(total \div 12, (total % 12) + 1, date.day)

\* NaiveDate::checked_add_months: the month is advanced, the day is kept when
\* the target month has it and is otherwise the last day of the target month;
\* None only when the result is past NaiveDate::MAX (as it is for every count
\* of months that exceeds the months between NaiveDate::MIN and NaiveDate::MAX).
checked_add_months(date, months) ==
    IF months > 12 * (MAX_YEAR - MIN_YEAR + 1) THEN None
    ELSE LET total == date.year * 12 + (date.month - 1) + months
             y == total \div 12
             m == (total % 12) + 1
         IN  from_ymd_opt(y, m, Min(date.day, DaysInMonth(y, m)))

-----------------------------------------------------------------------------
(* get_first_day_of_months_between, lines 173-188 *)

\* walk_days with the loop condition date < end_date.
walk_days_exclusive(first, end) ==
    LET n == days_from_civil(end) - days_from_civil(first)
        visited == [i \in 1..n |-> checked_add_days(first, i - 1)]
        pushed == SelectSeq(visited, LAMBDA date : date.day = 1)
    IN  [panicked |-> FALSE, value |-> pushed]

\* The while loop of lines 179-186, entered with `first` <= `end`: `date`
\* takes every day from `first` through `end` in turn, and those with
\* day() = 1 are pushed.  The result is [panicked, value]: the step past the
\* last visited day is expect("Invalid date"), which panics when that day is
\* NaiveDate::MAX, and then nothing is returned.
walk_days(first, end) ==
    LET n == days_from_civil(end) - days_from_civil(first) + 1
        visited == [i \in 1..n |-> checked_add_days(first, i - 1)]
        pushed == SelectSeq(visited, LAMBDA date : date.day = 1)
        panicked == checked_add_days(end, 1) = None
    IN  [panicked |-> panicked, value |-> IF panicked THEN << >> ELSE pushed]

\* get_first_day_of_months_between without the early return of lines 174-176.
get_first_day_unguarded(start, end) ==
    LET first == with_day(start, 1)
    IN  IF first = None THEN [panicked |-> TRUE, value |-> << >>]
        ELSE walk_days(first, end)

get_first_day_of_months_between(start, end) ==
    IF DateLT(end, start) THEN [panicked |-> FALSE, value |-> << >>]
    ELSE LET first == with_day(start, 1)
         IN  IF first = None THEN [panicked |-> TRUE, value |-> << >>]
             ELSE walk_days(first, end)

-----------------------------------------------------------------------------
(* The calendar walk on its own: inputs drawn in Init, one call. *)

DaySamples == {1, 15, 20, 31}

SampleDates ==
    {[year |-> y, month |-> m, day |-> Min(d, DaysInMonth(y, m))] :
        y \in Years, m \in {1, 2, 3, 12}, d \in DaySamples}

Idle ==
    /\ argv = << >> /\ args = None /\ now = None /\ file = None /\ events = << >>
    /\ row_idx = 0 /\ date_idx = 0 /\ sum = 0 /\ stdout = << >> /\ panic = None
    /\ stderr = << >> /\ exit_code = None

IdleEvent ==
    /\ row = None /\ month_date = None /\ tax_rate = 0
    /\ parsed = None /\ amount = 0

\* Days of the last two months up to NaiveDate::MAX.
LastDates ==
    {[year |-> MAX_YEAR, month |-> md[1], day |-> md[2]] :
        md \in {<<11, 15>>, <<12, 1>>, <<12, 30>>, <<12, 31>>}}

InitDates ==
    /\ pc = "call"
    /\ \/ start_date \in SampleDates /\ end_date \in SampleDates
       \/ start_date \in LastDates /\ end_date \in LastDates
    /\ dates = << >>
    /\ Idle /\ IdleEvent

CallWalk ==
    /\ pc = "call"
    /\ LET r == get_first_day_of_months_between(start_date, end_date)
       IN  /\ dates' = r.value
           /\ pc' = IF r.panicked THEN "panicked" ELSE "returned"
    /\ UNCHANGED <<start_date, end_date>>
    /\ UNCHANGED mainVars /\ UNCHANGED eventVars

NextDates == CallWalk

SpecDates == InitDates /\ [][NextDates]_vars

\* The months of the calendar, numbered from year 0.
MonthIndex(date) == date.year * 12 + date.month - 1
FirstOfMonth(k) == [year |-> k \div 12, month |-> (k % 12) + 1, day |-> 1]

\* C4: for start_date <= end_date the call returns, and the result is, in
\* strictly ascending order, exactly day 1 of every calendar month from
\* start_date's month through end_date's month: the first entry is day 1 of
\* start_date's month, the last is day 1 of end_date's month, and the length
\* is the number of months spanned.
C4_FirstDayOfEverySpannedMonth ==
    /\ pc # "panicked"
    /\ (pc = "returned" /\ DateLE(start_date, end_date)) =>
          /\ Len(dates) = MonthIndex(end_date) - MonthIndex(start_date) + 1
          /\ \A i \in 1..Len(dates) :
                dates[i] = FirstOfMonth(MonthIndex(start_date) + i - 1)
          /\ \A i, j \in 1..Len(dates) : i < j => DateLT(dates[i], dates[j])

\* C5: for start_date > end_date the result is the empty sequence.
C5_EmptyWhenStartAfterEnd ==
    (pc = "returned" /\ DateLT(end_date, start_date)) => dates = << >>

\* start_date after end_date in the same calendar month, so that day 1 of
\* start_date's month is not after end_date.
C5_Witness ==
    /\ pc = "returned"
    /\ DateLT(end_date, start_date)
    /\ MonthIndex(start_date) = MonthIndex(end_date)
    /\ DateLE(FirstOfMonth(MonthIndex(start_date)), end_date)
    /\ dates = << >>

-----------------------------------------------------------------------------
(* Text.  A &str is the sequence of its characters, each a Unicode scalar   *)
(* value, given by its code point.  A text is written as a TLA+ string: an *)
(* ASCII character stands for itself, \\ for one backslash, and \u{H}, H   *)
(* one to six hexadecimal digits of either case, for the character with    *)
(* that code point (as in a Rust string literal); a backslash that starts  *)
(* neither of the two stands for itself.  Chars gives the characters.      *)

Some(v) == [some |-> v]

\* Result
Err(msg) == [err |-> msg]
Ok(v) == [ok |-> v]
IsOk(r) == "ok" \in DOMAIN r

\* The ASCII characters TLA+ can write, by code point.
Printable32 == " !\"#$%&'()*+,-./0123456789:;<=>?@ABCDEFGHIJKLMNOPQRSTUVWXYZ[\\]^_"
Printable97 == "abcdefghijklmnopqrstuvwxyz{|}~"

AsciiCode ==
    [c \in {SubSeq(Printable32, k, k) : k \in 1..64} |->
        31 + CHOOSE k \in 1..64 : SubSeq(Printable32, k, k) = c]
    @@ [c \in {SubSeq(Printable97, k, k) : k \in 1..30} |->
        96 + CHOOSE k \in 1..30 : SubSeq(Printable97, k, k) = c]
    @@ [c \in {"\t", "\n", "\f", "\r"} |->
        CASE c = "\t" -> 9 [] c = "\n" -> 10 [] c = "\f" -> 12 [] c = "\r" -> 13]

\* The character an ASCII character denotes, as '(' in the source.
Code(c) == AsciiCode[c]

HexValue ==
    [c \in {SubSeq("0123456789ABCDEF", k, k) : k \in 1..16} |->
        (CHOOSE k \in 1..16 : SubSeq("0123456789ABCDEF", k, k) = c) - 1]
    @@ [c \in {SubSeq("abcdef", k, k) : k \in 1..6} |->
        9 + CHOOSE k \in 1..6 : SubSeq("abcdef", k, k) = c]

\* The number written by the hexadecimal digits at positions lo..hi of s.
RECURSIVE hex_number(_, _, _)
hex_number(s, lo, hi) ==
    IF hi < lo THEN 0
    ELSE 16 * hex_number(s, lo, hi - 1) + HexValue[SubSeq(s, hi, hi)]

\* char::from_u32: a code point that is a Unicode scalar value.
IsScalarValue(n) == n <= 1114111 /\ ~(n >= 55296 /\ n <= 57343)

\* The number of hexadecimal digits of the \u{H} that starts at position i
\* of s, or 0 when none starts there.
EscapeDigits(s, i) ==
    IF i + 2 <= Len(s) /\ SubSeq(s, i, i + 2) = "\\u{"
    THEN LET ns == {n \in 1..6 :
                      /\ i + 3 + n <= Len(s)
                      /\ \A j \in (i + 3)..(i + 2 + n) : SubSeq(s, j, j) \in DOMAIN HexValue
                      /\ SubSeq(s, i + 3 + n, i + 3 + n) = "}"
                      /\ IsScalarValue(hex_number(s, i + 3, i + 2 + n))}
         IN  IF ns = {} THEN 0 ELSE CHOOSE n \in ns : TRUE
    ELSE 0

\* The characters of a text from position i on.
RECURSIVE decode(_, _)
decode_escape(s, i, n) ==
    IF n > 0 THEN <<hex_number(s, i + 3, i + 2 + n)>> \o decode(s, i + 4 + n)
    ELSE IF i + 1 <= Len(s) /\ SubSeq(s, i, i + 1) = "\\\\"
    THEN <<AsciiCode["\\"]>> \o decode(s, i + 2)
    ELSE <<AsciiCode[SubSeq(s, i, i)]>> \o decode(s, i + 1)

decode(s, i) ==
    IF i > Len(s) THEN << >> ELSE decode_escape(s, i, EscapeDigits(s, i))

\* The characters of a text (str::chars).
Chars(s) ==
    IF \A i \in 1..Len(s) : SubSeq(s, i, i) # "\\"
    THEN [i \in 1..Len(s) |-> AsciiCode[SubSeq(s, i, i)]]
    ELSE decode(s, 1)

\* The simple lowercase mappings of the characters outside ASCII (the table
\* of core::unicode::conversions::to_lower, Unicode 17.0), as runs
\* <<first, last, step, delta>>: the characters first, first + step, ..,
\* last are mapped to themselves plus delta.
LowercaseRuns ==
    {<<192, 214, 1, 32>>, <<216, 222, 1, 32>>, <<256, 302, 2, 1>>, <<306, 310, 2, 1>>,
     <<313, 327, 2, 1>>, <<330, 374, 2, 1>>, <<376, 376, 1, -121>>, <<377, 381, 2, 1>>,
     <<385, 385, 1, 210>>, <<386, 388, 2, 1>>, <<390, 390, 1, 206>>, <<391, 391, 1, 1>>,
     <<393, 394, 1, 205>>, <<395, 395, 1, 1>>, <<398, 398, 1, 79>>, <<399, 399, 1, 202>>,
     <<400, 400, 1, 203>>, <<401, 401, 1, 1>>, <<403, 403, 1, 205>>, <<404, 404, 1, 207>>,
     <<406, 406, 1, 211>>, <<407, 407, 1, 209>>, <<408, 408, 1, 1>>, <<412, 412, 1, 211>>,
     <<413, 413, 1, 213>>, <<415, 415, 1, 214>>, <<416, 420, 2, 1>>, <<422, 422, 1, 218>>,
     <<423, 423, 1, 1>>, <<425, 425, 1, 218>>, <<428, 428, 1, 1>>, <<430, 430, 1, 218>>,
     <<431, 431, 1, 1>>, <<433, 434, 1, 217>>, <<435, 437, 2, 1>>, <<439, 439, 1, 219>>,
     <<440, 440, 1, 1>>, <<444, 444, 1, 1>>, <<452, 452, 1, 2>>, <<453, 453, 1, 1>>,
     <<455, 455, 1, 2>>, <<456, 456, 1, 1>>, <<458, 458, 1, 2>>, <<459, 475, 2, 1>>,
     <<478, 494, 2, 1>>, <<497, 497, 1, 2>>, <<498, 500, 2, 1>>, <<502, 502, 1, -97>>,
     <<503, 503, 1, -56>>, <<504, 542, 2, 1>>, <<544, 544, 1, -130>>, <<546, 562, 2, 1>>,
     <<570, 570, 1, 10795>>, <<571, 571, 1, 1>>, <<573, 573, 1, -163>>, <<574, 574, 1, 10792>>,
     <<577, 577, 1, 1>>, <<579, 579, 1, -195>>, <<580, 580, 1, 69>>, <<581, 581, 1, 71>>,
     <<582, 590, 2, 1>>, <<880, 882, 2, 1>>, <<886, 886, 1, 1>>, <<895, 895, 1, 116>>,
     <<902, 902, 1, 38>>, <<904, 906, 1, 37>>, <<908, 908, 1, 64>>, <<910, 911, 1, 63>>,
     <<913, 929, 1, 32>>, <<931, 939, 1, 32>>, <<975, 975, 1, 8>>, <<984, 1006, 2, 1>>,
     <<1012, 1012, 1, -60>>, <<1015, 1015, 1, 1>>, <<1017, 1017, 1, -7>>, <<1018, 1018, 1, 1>>,
     <<1021, 1023, 1, -130>>, <<1024, 1039, 1, 80>>, <<1040, 1071, 1, 32>>, <<1120, 1152, 2, 1>>,
     <<1162, 1214, 2, 1>>, <<1216, 1216, 1, 15>>, <<1217, 1229, 2, 1>>, <<1232, 1326, 2, 1>>,
     <<1329, 1366, 1, 48>>, <<4256, 4293, 1, 7264>>, <<4295, 4295, 1, 7264>>, <<4301, 4301, 1, 7264>>,
     <<5024, 5103, 1, 38864>>, <<5104, 5109, 1, 8>>, <<7305, 7305, 1, 1>>, <<7312, 7354, 1, -3008>>,
     <<7357, 7359, 1, -3008>>, <<7680, 7828, 2, 1>>, <<7838, 7838, 1, -7615>>, <<7840, 7934, 2, 1>>,
     <<7944, 7951, 1, -8>>, <<7960, 7965, 1, -8>>, <<7976, 7983, 1, -8>>, <<7992, 7999, 1, -8>>,
     <<8008, 8013, 1, -8>>, <<8025, 8031, 2, -8>>, <<8040, 8047, 1, -8>>, <<8072, 8079, 1, -8>>,
     <<8088, 8095, 1, -8>>, <<8104, 8111, 1, -8>>, <<8120, 8121, 1, -8>>, <<8122, 8123, 1, -74>>,
     <<8124, 8124, 1, -9>>, <<8136, 8139, 1, -86>>, <<8140, 8140, 1, -9>>, <<8152, 8153, 1, -8>>,
     <<8154, 8155, 1, -100>>, <<8168, 8169, 1, -8>>, <<8170, 8171, 1, -112>>, <<8172, 8172, 1, -7>>,
     <<8184, 8185, 1, -128>>, <<8186, 8187, 1, -126>>, <<8188, 8188, 1, -9>>, <<8486, 8486, 1, -7517>>,
     <<8490, 8490, 1, -8383>>, <<8491, 8491, 1, -8262>>, <<8498, 8498, 1, 28>>, <<8544, 8559, 1, 16>>,
     <<8579, 8579, 1, 1>>, <<9398, 9423, 1, 26>>, <<11264, 11311, 1, 48>>, <<11360, 11360, 1, 1>>,
     <<11362, 11362, 1, -10743>>, <<11363, 11363, 1, -3814>>, <<11364, 11364, 1, -10727>>, <<11367, 11371, 2, 1>>,
     <<11373, 11373, 1, -10780>>, <<11374, 11374, 1, -10749>>, <<11375, 11375, 1, -10783>>, <<11376, 11376, 1, -10782>>,
     <<11378, 11378, 1, 1>>, <<11381, 11381, 1, 1>>, <<11390, 11391, 1, -10815>>, <<11392, 11490, 2, 1>>,
     <<11499, 11501, 2, 1>>, <<11506, 11506, 1, 1>>, <<42560, 42604, 2, 1>>, <<42624, 42650, 2, 1>>,
     <<42786, 42798, 2, 1>>, <<42802, 42862, 2, 1>>, <<42873, 42875, 2, 1>>, <<42877, 42877, 1, -35332>>,
     <<42878, 42886, 2, 1>>, <<42891, 42891, 1, 1>>, <<42893, 42893, 1, -42280>>, <<42896, 42898, 2, 1>>,
     <<42902, 42920, 2, 1>>, <<42922, 42922, 1, -42308>>, <<42923, 42923, 1, -42319>>, <<42924, 42924, 1, -42315>>,
     <<42925, 42925, 1, -42305>>, <<42926, 42926, 1, -42308>>, <<42928, 42928, 1, -42258>>, <<42929, 42929, 1, -42282>>,
     <<42930, 42930, 1, -42261>>, <<42931, 42931, 1, 928>>, <<42932, 42946, 2, 1>>, <<42948, 42948, 1, -48>>,
     <<42949, 42949, 1, -42307>>, <<42950, 42950, 1, -35384>>, <<42951, 42953, 2, 1>>, <<42955, 42955, 1, -42343>>,
     <<42956, 42970, 2, 1>>, <<42972, 42972, 1, -42561>>, <<42997, 42997, 1, 1>>, <<65313, 65338, 1, 32>>,
     <<66560, 66599, 1, 40>>, <<66736, 66771, 1, 40>>, <<66928, 66964, 2, 39>>, <<66929, 66937, 2, 39>>,
     <<66941, 66953, 2, 39>>, <<66957, 66961, 2, 39>>, <<66965, 66965, 1, 39>>, <<68736, 68786, 1, 64>>,
     <<68944, 68965, 1, 32>>, <<71840, 71871, 1, 32>>, <<93760, 93791, 1, 32>>, <<93856, 93880, 1, 27>>,
     <<125184, 125217, 1, 34>>}

\* The characters with the property Cased, as ranges <<first, last>>.
CasedRanges ==
    {<<65, 90>>, <<97, 122>>, <<170, 170>>, <<181, 181>>, <<186, 186>>, <<192, 214>>,
     <<216, 246>>, <<248, 442>>, <<444, 447>>, <<452, 659>>, <<662, 696>>, <<704, 705>>,
     <<736, 740>>, <<837, 837>>, <<880, 883>>, <<886, 887>>, <<890, 893>>, <<895, 895>>,
     <<902, 902>>, <<904, 906>>, <<908, 908>>, <<910, 929>>, <<931, 1013>>, <<1015, 1153>>,
     <<1162, 1327>>, <<1329, 1366>>, <<1376, 1416>>, <<4256, 4293>>, <<4295, 4295>>, <<4301, 4301>>,
     <<4304, 4346>>, <<4348, 4351>>, <<5024, 5109>>, <<5112, 5117>>, <<7296, 7306>>, <<7312, 7354>>,
     <<7357, 7359>>, <<7424, 7615>>, <<7680, 7957>>, <<7960, 7965>>, <<7968, 8005>>, <<8008, 8013>>,
     <<8016, 8023>>, <<8025, 8025>>, <<8027, 8027>>, <<8029, 8029>>, <<8031, 8061>>, <<8064, 8116>>,
     <<8118, 8124>>, <<8126, 8126>>, <<8130, 8132>>, <<8134, 8140>>, <<8144, 8147>>, <<8150, 8155>>,
     <<8160, 8172>>, <<8178, 8180>>, <<8182, 8188>>, <<8305, 8305>>, <<8319, 8319>>, <<8336, 8348>>,
     <<8450, 8450>>, <<8455, 8455>>, <<8458, 8467>>, <<8469, 8469>>, <<8473, 8477>>, <<8484, 8484>>,
     <<8486, 8486>>, <<8488, 8488>>, <<8490, 8493>>, <<8495, 8500>>, <<8505, 8505>>, <<8508, 8511>>,
     <<8517, 8521>>, <<8526, 8526>>, <<8544, 8575>>, <<8579, 8580>>, <<9398, 9449>>, <<11264, 11492>>,
     <<11499, 11502>>, <<11506, 11507>>, <<11520, 11557>>, <<11559, 11559>>, <<11565, 11565>>, <<42560, 42605>>,
     <<42624, 42653>>, <<42786, 42887>>, <<42891, 42894>>, <<42896, 42972>>, <<42993, 42998>>, <<43000, 43002>>,
     <<43824, 43866>>, <<43868, 43881>>, <<43888, 43967>>, <<64256, 64262>>, <<64275, 64279>>, <<65313, 65338>>,
     <<65345, 65370>>, <<66560, 66639>>, <<66736, 66771>>, <<66776, 66811>>, <<66928, 66938>>, <<66940, 66954>>,
     <<66956, 66962>>, <<66964, 66965>>, <<66967, 66977>>, <<66979, 66993>>, <<66995, 67001>>, <<67003, 67004>>,
     <<67456, 67456>>, <<67459, 67461>>, <<67463, 67504>>, <<67506, 67514>>, <<68736, 68786>>, <<68800, 68850>>,
     <<68944, 68965>>, <<68976, 68997>>, <<71840, 71903>>, <<93760, 93823>>, <<93856, 93880>>, <<93883, 93907>>,
     <<119808, 119892>>, <<119894, 119964>>, <<119966, 119967>>, <<119970, 119970>>, <<119973, 119974>>, <<119977, 119980>>,
     <<119982, 119993>>, <<119995, 119995>>, <<119997, 120003>>, <<120005, 120069>>, <<120071, 120074>>, <<120077, 120084>>,
     <<120086, 120092>>, <<120094, 120121>>, <<120123, 120126>>, <<120128, 120132>>, <<120134, 120134>>, <<120138, 120144>>,
     <<120146, 120485>>, <<120488, 120512>>, <<120514, 120538>>, <<120540, 120570>>, <<120572, 120596>>, <<120598, 120628>>,
     <<120630, 120654>>, <<120656, 120686>>, <<120688, 120712>>, <<120714, 120744>>, <<120746, 120770>>, <<120772, 120779>>,
     <<122624, 122633>>, <<122635, 122654>>, <<122661, 122666>>, <<122928, 122989>>, <<125184, 125251>>, <<127280, 127305>>,
     <<127312, 127337>>, <<127344, 127369>>}

\* The characters with the property Case_Ignorable, as ranges <<first, last>>.
CaseIgnorableRanges ==
    {<<39, 39>>, <<46, 46>>, <<58, 58>>, <<94, 94>>, <<96, 96>>, <<168, 168>>,
     <<173, 173>>, <<175, 175>>, <<180, 180>>, <<183, 184>>, <<688, 879>>, <<884, 885>>,
     <<890, 890>>, <<900, 901>>, <<903, 903>>, <<1155, 1161>>, <<1369, 1369>>, <<1375, 1375>>,
     <<1425, 1469>>, <<1471, 1471>>, <<1473, 1474>>, <<1476, 1477>>, <<1479, 1479>>, <<1524, 1524>>,
     <<1536, 1541>>, <<1552, 1562>>, <<1564, 1564>>, <<1600, 1600>>, <<1611, 1631>>, <<1648, 1648>>,
     <<1750, 1757>>, <<1759, 1768>>, <<1770, 1773>>, <<1807, 1807>>, <<1809, 1809>>, <<1840, 1866>>,
     <<1958, 1968>>, <<2027, 2037>>, <<2042, 2042>>, <<2045, 2045>>, <<2070, 2093>>, <<2137, 2139>>,
     <<2184, 2184>>, <<2192, 2193>>, <<2199, 2207>>, <<2249, 2306>>, <<2362, 2362>>, <<2364, 2364>>,
     <<2369, 2376>>, <<2381, 2381>>, <<2385, 2391>>, <<2402, 2403>>, <<2417, 2417>>, <<2433, 2433>>,
     <<2492, 2492>>, <<2497, 2500>>, <<2509, 2509>>, <<2530, 2531>>, <<2558, 2558>>, <<2561, 2562>>,
     <<2620, 2620>>, <<2625, 2626>>, <<2631, 2632>>, <<2635, 2637>>, <<2641, 2641>>, <<2672, 2673>>,
     <<2677, 2677>>, <<2689, 2690>>, <<2748, 2748>>, <<2753, 2757>>, <<2759, 2760>>, <<2765, 2765>>,
     <<2786, 2787>>, <<2810, 2815>>, <<2817, 2817>>, <<2876, 2876>>, <<2879, 2879>>, <<2881, 2884>>,
     <<2893, 2893>>, <<2901, 2902>>, <<2914, 2915>>, <<2946, 2946>>, <<3008, 3008>>, <<3021, 3021>>,
     <<3072, 3072>>, <<3076, 3076>>, <<3132, 3132>>, <<3134, 3136>>, <<3142, 3144>>, <<3146, 3149>>,
     <<3157, 3158>>, <<3170, 3171>>, <<3201, 3201>>, <<3260, 3260>>, <<3263, 3263>>, <<3270, 3270>>,
     <<3276, 3277>>, <<3298, 3299>>, <<3328, 3329>>, <<3387, 3388>>, <<3393, 3396>>, <<3405, 3405>>,
     <<3426, 3427>>, <<3457, 3457>>, <<3530, 3530>>, <<3538, 3540>>, <<3542, 3542>>, <<3633, 3633>>,
     <<3636, 3642>>, <<3654, 3662>>, <<3761, 3761>>, <<3764, 3772>>, <<3782, 3782>>, <<3784, 3790>>,
     <<3864, 3865>>, <<3893, 3893>>, <<3895, 3895>>, <<3897, 3897>>, <<3953, 3966>>, <<3968, 3972>>,
     <<3974, 3975>>, <<3981, 3991>>, <<3993, 4028>>, <<4038, 4038>>, <<4141, 4144>>, <<4146, 4151>>,
     <<4153, 4154>>, <<4157, 4158>>, <<4184, 4185>>, <<4190, 4192>>, <<4209, 4212>>, <<4226, 4226>>,
     <<4229, 4230>>, <<4237, 4237>>, <<4253, 4253>>, <<4348, 4348>>, <<4957, 4959>>, <<5906, 5908>>,
     <<5938, 5939>>, <<5970, 5971>>, <<6002, 6003>>, <<6068, 6069>>, <<6071, 6077>>, <<6086, 6086>>,
     <<6089, 6099>>, <<6103, 6103>>, <<6109, 6109>>, <<6155, 6159>>, <<6211, 6211>>, <<6277, 6278>>,
     <<6313, 6313>>, <<6432, 6434>>, <<6439, 6440>>, <<6450, 6450>>, <<6457, 6459>>, <<6679, 6680>>,
     <<6683, 6683>>, <<6742, 6742>>, <<6744, 6750>>, <<6752, 6752>>, <<6754, 6754>>, <<6757, 6764>>,
     <<6771, 6780>>, <<6783, 6783>>, <<6823, 6823>>, <<6832, 6877>>, <<6880, 6891>>, <<6912, 6915>>,
     <<6964, 6964>>, <<6966, 6970>>, <<6972, 6972>>, <<6978, 6978>>, <<7019, 7027>>, <<7040, 7041>>,
     <<7074, 7077>>, <<7080, 7081>>, <<7083, 7085>>, <<7142, 7142>>, <<7144, 7145>>, <<7149, 7149>>,
     <<7151, 7153>>, <<7212, 7219>>, <<7222, 7223>>, <<7288, 7293>>, <<7376, 7378>>, <<7380, 7392>>,
     <<7394, 7400>>, <<7405, 7405>>, <<7412, 7412>>, <<7416, 7417>>, <<7468, 7530>>, <<7544, 7544>>,
     <<7579, 7679>>, <<8125, 8125>>, <<8127, 8129>>, <<8141, 8143>>, <<8157, 8159>>, <<8173, 8175>>,
     <<8189, 8190>>, <<8203, 8207>>, <<8216, 8217>>, <<8228, 8228>>, <<8231, 8231>>, <<8234, 8238>>,
     <<8288, 8292>>, <<8294, 8303>>, <<8305, 8305>>, <<8319, 8319>>, <<8336, 8348>>, <<8400, 8432>>,
     <<11388, 11389>>, <<11503, 11505>>, <<11631, 11631>>, <<11647, 11647>>, <<11744, 11775>>, <<11823, 11823>>,
     <<12293, 12293>>, <<12330, 12333>>, <<12337, 12341>>, <<12347, 12347>>, <<12441, 12446>>, <<12540, 12542>>,
     <<40981, 40981>>, <<42232, 42237>>, <<42508, 42508>>, <<42607, 42610>>, <<42612, 42621>>, <<42623, 42623>>,
     <<42652, 42655>>, <<42736, 42737>>, <<42752, 42785>>, <<42864, 42864>>, <<42888, 42890>>, <<42993, 42996>>,
     <<43000, 43001>>, <<43010, 43010>>, <<43014, 43014>>, <<43019, 43019>>, <<43045, 43046>>, <<43052, 43052>>,
     <<43204, 43205>>, <<43232, 43249>>, <<43263, 43263>>, <<43302, 43309>>, <<43335, 43345>>, <<43392, 43394>>,
     <<43443, 43443>>, <<43446, 43449>>, <<43452, 43453>>, <<43471, 43471>>, <<43493, 43494>>, <<43561, 43566>>,
     <<43569, 43570>>, <<43573, 43574>>, <<43587, 43587>>, <<43596, 43596>>, <<43632, 43632>>, <<43644, 43644>>,
     <<43696, 43696>>, <<43698, 43700>>, <<43703, 43704>>, <<43710, 43711>>, <<43713, 43713>>, <<43741, 43741>>,
     <<43756, 43757>>, <<43763, 43764>>, <<43766, 43766>>, <<43867, 43871>>, <<43881, 43883>>, <<44005, 44005>>,
     <<44008, 44008>>, <<44013, 44013>>, <<64286, 64286>>, <<64434, 64450>>, <<65024, 65039>>, <<65043, 65043>>,
     <<65056, 65071>>, <<65106, 65106>>, <<65109, 65109>>, <<65279, 65279>>, <<65287, 65287>>, <<65294, 65294>>,
     <<65306, 65306>>, <<65342, 65342>>, <<65344, 65344>>, <<65392, 65392>>, <<65438, 65439>>, <<65507, 65507>>,
     <<65529, 65531>>, <<66045, 66045>>, <<66272, 66272>>, <<66422, 66426>>, <<67456, 67461>>, <<67463, 67504>>,
     <<67506, 67514>>, <<68097, 68099>>, <<68101, 68102>>, <<68108, 68111>>, <<68152, 68154>>, <<68159, 68159>>,
     <<68325, 68326>>, <<68900, 68903>>, <<68942, 68942>>, <<68969, 68973>>, <<68975, 68975>>, <<69291, 69292>>,
     <<69317, 69317>>, <<69370, 69375>>, <<69446, 69456>>, <<69506, 69509>>, <<69633, 69633>>, <<69688, 69702>>,
     <<69744, 69744>>, <<69747, 69748>>, <<69759, 69761>>, <<69811, 69814>>, <<69817, 69818>>, <<69821, 69821>>,
     <<69826, 69826>>, <<69837, 69837>>, <<69888, 69890>>, <<69927, 69931>>, <<69933, 69940>>, <<70003, 70003>>,
     <<70016, 70017>>, <<70070, 70078>>, <<70089, 70092>>, <<70095, 70095>>, <<70191, 70193>>, <<70196, 70196>>,
     <<70198, 70199>>, <<70206, 70206>>, <<70209, 70209>>, <<70367, 70367>>, <<70371, 70378>>, <<70400, 70401>>,
     <<70459, 70460>>, <<70464, 70464>>, <<70502, 70508>>, <<70512, 70516>>, <<70587, 70592>>, <<70606, 70606>>,
     <<70608, 70608>>, <<70610, 70610>>, <<70625, 70626>>, <<70712, 70719>>, <<70722, 70724>>, <<70726, 70726>>,
     <<70750, 70750>>, <<70835, 70840>>, <<70842, 70842>>, <<70847, 70848>>, <<70850, 70851>>, <<71090, 71093>>,
     <<71100, 71101>>, <<71103, 71104>>, <<71132, 71133>>, <<71219, 71226>>, <<71229, 71229>>, <<71231, 71232>>,
     <<71339, 71339>>, <<71341, 71341>>, <<71344, 71349>>, <<71351, 71351>>, <<71453, 71453>>, <<71455, 71455>>,
     <<71458, 71461>>, <<71463, 71467>>, <<71727, 71735>>, <<71737, 71738>>, <<71995, 71996>>, <<71998, 71998>>,
     <<72003, 72003>>, <<72148, 72151>>, <<72154, 72155>>, <<72160, 72160>>, <<72193, 72202>>, <<72243, 72248>>,
     <<72251, 72254>>, <<72263, 72263>>, <<72273, 72278>>, <<72281, 72283>>, <<72330, 72342>>, <<72344, 72345>>,
     <<72544, 72544>>, <<72546, 72548>>, <<72550, 72550>>, <<72752, 72758>>, <<72760, 72765>>, <<72767, 72767>>,
     <<72850, 72871>>, <<72874, 72880>>, <<72882, 72883>>, <<72885, 72886>>, <<73009, 73014>>, <<73018, 73018>>,
     <<73020, 73021>>, <<73023, 73029>>, <<73031, 73031>>, <<73104, 73105>>, <<73109, 73109>>, <<73111, 73111>>,
     <<73177, 73177>>, <<73459, 73460>>, <<73472, 73473>>, <<73526, 73530>>, <<73536, 73536>>, <<73538, 73538>>,
     <<73562, 73562>>, <<78896, 78912>>, <<78919, 78933>>, <<90398, 90409>>, <<90413, 90415>>, <<92912, 92916>>,
     <<92976, 92982>>, <<92992, 92995>>, <<93504, 93506>>, <<93547, 93548>>, <<94031, 94031>>, <<94095, 94111>>,
     <<94176, 94177>>, <<94179, 94180>>, <<94194, 94195>>, <<110576, 110579>>, <<110581, 110587>>, <<110589, 110590>>,
     <<113821, 113822>>, <<113824, 113827>>, <<118528, 118573>>, <<118576, 118598>>, <<119143, 119145>>, <<119155, 119170>>,
     <<119173, 119179>>, <<119210, 119213>>, <<119362, 119364>>, <<121344, 121398>>, <<121403, 121452>>, <<121461, 121461>>,
     <<121476, 121476>>, <<121499, 121503>>, <<121505, 121519>>, <<122880, 122886>>, <<122888, 122904>>, <<122907, 122913>>,
     <<122915, 122916>>, <<122918, 122922>>, <<122928, 122989>>, <<123023, 123023>>, <<123184, 123197>>, <<123566, 123566>>,
     <<123628, 123631>>, <<124139, 124143>>, <<124398, 124399>>, <<124643, 124643>>, <<124646, 124646>>, <<124654, 124655>>,
     <<124661, 124661>>, <<124671, 124671>>, <<125136, 125142>>, <<125252, 125259>>, <<127995, 127999>>, <<917505, 917505>>,
     <<917536, 917631>>, <<917760, 917999>>}

Cased(c) == \E r \in CasedRanges : r[1] <= c /\ c <= r[2]
Case_Ignorable(c) == \E r \in CaseIgnorableRanges : r[1] <= c /\ c <= r[2]

\* core::unicode::conversions::to_lower: the lowercase of one character, one
\* or more characters; LATIN CAPITAL LETTER I WITH DOT ABOVE gives i and
\* COMBINING DOT ABOVE.
to_lower(c) ==
    IF c < 128 THEN <<IF c >= 65 /\ c <= 90 THEN c + 32 ELSE c>>
    ELSE IF c = 304 THEN <<105, 775>>
    ELSE IF \E r \in LowercaseRuns : r[1] <= c /\ c <= r[2] /\ (c - r[1]) % r[3] = 0
    THEN <<c + (CHOOSE r \in LowercaseRuns :
                    r[1] <= c /\ c <= r[2] /\ (c - r[1]) % r[3] = 0)[4]>>
    ELSE <<c>>

\* The nearest character before (after) position i that is not
\* Case_Ignorable exists and is Cased.
cased_before(cs, i) ==
    \E j \in 1..(i - 1) :
        /\ ~Case_Ignorable(cs[j]) /\ Cased(cs[j])
        /\ \A k \in (j + 1)..(i - 1) : Case_Ignorable(cs[k])
cased_after(cs, i) ==
    \E j \in (i + 1)..Len(cs) :
        /\ ~Case_Ignorable(cs[j]) /\ Cased(cs[j])
        /\ \A k \in (i + 1)..(j - 1) : Case_Ignorable(cs[k])

\* map_uppercase_sigma: GREEK CAPITAL LETTER SIGMA is lowered to the final
\* sigma at the end of a word and to the small sigma elsewhere.
map_uppercase_sigma(cs, i) ==
    IF cased_before(cs, i) /\ ~cased_after(cs, i) THEN <<962>> ELSE <<963>>

\* The lowercase of the characters from position i on.
RECURSIVE lowercase_from(_, _)
lowercase_from(cs, i) ==
    IF i > Len(cs) THEN << >>
    ELSE (IF cs[i] = 931 THEN map_uppercase_sigma(cs, i) ELSE to_lower(cs[i]))
         \o lowercase_from(cs, i + 1)

\* str::to_lowercase: every character is replaced by its Unicode lowercase
\* mapping, which may be more than one character.
to_lowercase(cs) ==
    IF \A i \in 1..Len(cs) : cs[i] < 128
    THEN [i \in 1..Len(cs) |-> IF cs[i] >= 65 /\ cs[i] <= 90 THEN cs[i] + 32 ELSE cs[i]]
    ELSE lowercase_from(cs, 1)

\* str::split(c).collect(): the pieces between the occurrences of c; always
\* at least one piece.
split(cs, c) ==
    LET at == SelectSeq([i \in 1..Len(cs) |-> IF cs[i] = c THEN i ELSE 0],
                        LAMBDA i : i > 0)
        n == Len(at)
        cut(k) == IF k = 0 THEN 0 ELSE IF k = n + 1 THEN Len(cs) + 1 ELSE at[k]
    IN  [k \in 1..(n + 1) |-> SubSeq(cs, cut(k - 1) + 1, cut(k) - 1)]

\* str::strip_suffix(c)
strip_suffix(cs, c) ==
    IF Len(cs) > 0 /\ cs[Len(cs)] = c
    THEN Some(SubSeq(cs, 1, Len(cs) - 1))
    ELSE None

\* The characters with the Unicode property White_Space (char::is_whitespace).
WhiteSpace ==
    {9, 10, 11, 12, 13, 32, 133, 160, 5760, 8232, 8233, 8239, 8287, 12288}
    \cup (8192..8202)

\* str::trim_start: the text without its leading white space.
trim_start(cs) ==
    LET blanks == {k \in 0..Len(cs) : \A i \in 1..k : cs[i] \in WhiteSpace}
        k == CHOOSE k \in blanks : \A j \in blanks : j <= k
    IN  SubSeq(cs, k + 1, Len(cs))

\* The ASCII digits and their values.
IsDigit(c) == c >= 48 /\ c <= 57
DigitValue(c) == c - 48

\* The failures of chrono's parser (format::ParseErrorKind).
ParseError(kind) == [parse_error |-> kind]
OUT_OF_RANGE == ParseError("OutOfRange")
INVALID == ParseError("Invalid")
TOO_SHORT == ParseError("TooShort")
TOO_LONG == ParseError("TooLong")
IsParseError(r) == "parse_error" \in DOMAIN r

\* An i64 is I64(n) when n is within -(2^31 - 1) .. 2^31 - 1, the integers
\* of the checker, and otherwise Wide: its sign and the decimal digits of its
\* absolute value.
I64(n) == [i64 |-> n]
Wide(ds, negative) == [wide |-> ds, negative |-> negative]
IsWide(v) == "wide" \in DOMAIN v

\* The decimal digits of i64::MAX, of i32::MAX and of -i32::MIN.
I64_MAX == <<9, 2, 2, 3, 3, 7, 2, 0, 3, 6, 8, 5, 4, 7, 7, 5, 8, 0, 7>>
I32_MAX == <<2, 1, 4, 7, 4, 8, 3, 6, 4, 7>>
I32_MIN == <<2, 1, 4, 7, 4, 8, 3, 6, 4, 8>>

\* The decimal digits a run of digit characters writes, without its
\* leading zeros.
significant(ds) ==
    LET zeros == {k \in 0..Len(ds) : \A i \in 1..k : ds[i] = 48}
        k == CHOOSE k \in zeros : \A j \in zeros : j <= k
    IN  [i \in 1..(Len(ds) - k) |-> DigitValue(ds[k + i])]

\* Whether the number the digits a write is greater than the one b writes,
\* neither with a leading zero.
exceeds(a, b) ==
    \/ Len(a) > Len(b)
    \/ /\ Len(a) = Len(b)
       /\ \E i \in 1..Len(a) : a[i] > b[i] /\ \A j \in 1..(i - 1) : a[j] = b[j]

\* The number at most ten decimal digits write, at most i32::MAX.
RECURSIVE decimal(_)
decimal(ds) ==
    IF Len(ds) = 0 THEN 0
    ELSE 10 * decimal(SubSeq(ds, 1, Len(ds) - 1)) + ds[Len(ds)]

\* The i64 that decimal digits without a leading zero write, or OUT_OF_RANGE
\* when it is greater than i64::MAX (n.checked_mul(10) or checked_add fails).
accumulate(sig) ==
    IF exceeds(sig, I64_MAX) THEN OUT_OF_RANGE
    ELSE IF exceeds(sig, I32_MAX) THEN Wide(sig, FALSE)
    ELSE I64(decimal(sig))

\* The value of a run of decimal digits, as the loop of scan::number
\* accumulates it.
to_number(ds) == accumulate(significant(ds))

\* What scan::number returns for the value n of its digits and the text
\* after them.
scanned(n, rest) == IF IsParseError(n) THEN n ELSE [value |-> n, rest |-> rest]

\* chrono::format::scan::number(s, min, max): the longest run of at most max
\* leading digits, at least min of them; the value and the rest.
scan_number(cs, min, max) ==
    LET runs == {k \in 0..Min(Len(cs), max) : \A i \in 1..k : IsDigit(cs[i])}
        k == CHOOSE k \in runs : \A j \in runs : j <= k
    IN  IF Len(cs) < min THEN TOO_SHORT
        ELSE IF k < min THEN INVALID
        ELSE scanned(to_number(SubSeq(cs, 1, k)), SubSeq(cs, k + 1, Len(cs)))

\* 0i64.checked_sub(v), for the v >= 0 of a scan: never out of range.
checked_neg(v) == IF IsWide(v) THEN Wide(v.wide, TRUE) ELSE I64(0 - v.i64)

negated(r) ==
    IF IsParseError(r) THEN r ELSE [value |-> checked_neg(r.value), rest |-> r.rest]

\* The reading of chrono's numeric item: leading white space is skipped; a
\* signed item (the year) takes any number of digits after an explicit sign
\* and at most `width` without one.
numeric_item(cs, width, signed) ==
    LET t == trim_start(cs)
    IN  IF signed /\ Len(t) > 0 /\ t[1] = Code("-")
        THEN negated(scan_number(Tail(t), 1, Len(t)))
        ELSE IF signed /\ Len(t) > 0 /\ t[1] = Code("+")
        THEN scan_number(Tail(t), 1, Len(t))
        ELSE scan_number(t, 1, width)

\* Parsed::set_year: the year as an i32, i32::try_from(value).
set_year(v) ==
    IF ~IsWide(v) THEN Ok(v.i64)
    ELSE IF v = Wide(I32_MIN, TRUE) THEN Ok((0 - 2147483647) - 1)
    ELSE OUT_OF_RANGE

\* Parsed::set_month and Parsed::set_day: a value within 1..=12, 1..=31.
set_month(v) ==
    IF ~IsWide(v) /\ v.i64 >= 1 /\ v.i64 <= 12 THEN Ok(v.i64) ELSE OUT_OF_RANGE
set_day(v) ==
    IF ~IsWide(v) /\ v.i64 >= 1 /\ v.i64 <= 31 THEN Ok(v.i64) ELSE OUT_OF_RANGE

\* chrono's literal item
literal_item(cs, c) ==
    IF Len(cs) < 1 THEN TOO_SHORT
    ELSE IF cs[1] # c THEN INVALID
    ELSE [rest |-> Tail(cs)]

\* format::parse over the items of "%Y-%m-%d", item by item from the year on:
\* the fields of Parsed, or the first failure; text left over is TOO_LONG.
parse_end(y, m, d, rest) ==
    IF IsParseError(d) THEN d
    ELSE IF rest # << >> THEN TOO_LONG
    ELSE [year |-> y, month |-> m, day |-> d.ok]

parse_day(y, m, item) ==
    IF IsParseError(item) THEN item
    ELSE parse_end(y, m, set_day(item.value), item.rest)

parse_dash_day(y, m, lit) ==
    IF IsParseError(lit) THEN lit
    ELSE parse_day(y, m, numeric_item(lit.rest, 2, FALSE))

parse_month_set(y, m, rest) ==
    IF IsParseError(m) THEN m
    ELSE parse_dash_day(y, m.ok, literal_item(rest, Code("-")))

parse_month(y, item) ==
    IF IsParseError(item) THEN item
    ELSE parse_month_set(y, set_month(item.value), item.rest)

parse_dash_month(y, lit) ==
    IF IsParseError(lit) THEN lit
    ELSE parse_month(y, numeric_item(lit.rest, 2, FALSE))

parse_year_set(y, rest) ==
    IF IsParseError(y) THEN y
    ELSE parse_dash_month(y.ok, literal_item(rest, Code("-")))

parse_year(item) ==
    IF IsParseError(item) THEN item
    ELSE parse_year_set(set_year(item.value), item.rest)

parse(cs) == parse_year(numeric_item(cs, 4, TRUE))

\* Parsed::to_naive_date: the date of the fields, when the calendar has it.
to_naive_date(p) ==
    IF IsParseError(p) THEN None ELSE from_ymd_opt(p.year, p.month, p.day)

\* NaiveDate::parse_from_str(s, "%Y-%m-%d").ok(): year, '-', month, '-', day,
\* nothing after, and the three numbers a date of the calendar.
parse_from_str(cs) == to_naive_date(parse(cs))

-----------------------------------------------------------------------------
(* Frequency and Type, lines 13-106 *)

OneTime(date) == [tag |-> "OneTime", date |-> date]
Recurring(tag) == [tag |-> tag]

\* The match arms of Frequency::from_str, lines 28-40
OneTimeTokens == {Chars("1"), Chars("once"), Chars("onetime")}
DailyTokens == {Chars("d"), Chars("day"), Chars("daily")}
WeeklyTokens == {Chars("w"), Chars("week"), Chars("weekly")}
BiWeeklyTokens == {Chars("biweekly")}
MonthlyTokens == {Chars("m"), Chars("month"), Chars("monthly")}
QuarterlyTokens == {Chars("quarter"), Chars("quarterly")}
YearlyTokens == {Chars("y"), Chars("year"), Chars("yearly")}

\* Frequency::from_str matching the token as written, without to_lowercase.
from_str_case_sensitive(s) ==
    LET parts == split(Chars(s), Code("("))
        head == parts[1]
    IN  IF head \in OneTimeTokens
        THEN LET arg == IF Len(parts) >= 2 THEN strip_suffix(parts[2], Code(")")) ELSE None
                 date == IF arg = None THEN None ELSE parse_from_str(arg.some)
             IN  Ok(OneTime(date))
        ELSE IF head \in DailyTokens THEN Ok(Recurring("Daily"))
        ELSE IF head \in WeeklyTokens THEN Ok(Recurring("Weekly"))
        ELSE IF head \in BiWeeklyTokens THEN Ok(Recurring("BiWeekly"))
        ELSE IF head \in MonthlyTokens THEN Ok(Recurring("Monthly"))
        ELSE IF head \in QuarterlyTokens THEN Ok(Recurring("Quarterly"))
        ELSE IF head \in YearlyTokens THEN Ok(Recurring("Yearly"))
        ELSE Err("Invalid frequency")

\* Frequency::from_str, lines 24-43
from_str(s) ==
    LET lowered == to_lowercase(Chars(s))
        parts == split(lowered, Code("("))
        head == parts[1]
    IN  IF head \in OneTimeTokens
        THEN LET arg == IF Len(parts) >= 2 THEN strip_suffix(parts[2], Code(")")) ELSE None
                 date == IF arg = None THEN None ELSE parse_from_str(arg.some)
             IN  Ok(OneTime(date))
        ELSE IF head \in DailyTokens THEN Ok(Recurring("Daily"))
        ELSE IF head \in WeeklyTokens THEN Ok(Recurring("Weekly"))
        ELSE IF head \in BiWeeklyTokens THEN Ok(Recurring("BiWeekly"))
        ELSE IF head \in MonthlyTokens THEN Ok(Recurring("Monthly"))
        ELSE IF head \in QuarterlyTokens THEN Ok(Recurring("Quarterly"))
        ELSE IF head \in YearlyTokens THEN Ok(Recurring("Yearly"))
        ELSE Err("Invalid frequency")

\* The match arms of Type::from_str, lines 88-92
BillTokens == {Chars("bill")}
IncomeTokens == {Chars("income")}
InvestmentTokens == {Chars("investment")}
SubscriptionTokens == {Chars("sub"), Chars("subscription")}
OtherTokens == {Chars("other")}

\* Type::from_str, lines 86-95
type_from_str(s) ==
    LET lowered == to_lowercase(Chars(s))
    IN  IF lowered \in BillTokens THEN Ok("Bill")
        ELSE IF lowered \in IncomeTokens THEN Ok("Income")
        ELSE IF lowered \in InvestmentTokens THEN Ok("Investment")
        ELSE IF lowered \in SubscriptionTokens THEN Ok("Subscription")
        ELSE IF lowered \in OtherTokens THEN Ok("Other")
        ELSE Err("Invalid type")

\* The fields of CashEvent in declaration order, lines 109-114
StructFields == <<"name", "usd", "frequency", "type_", "is_taxable">>

\* A usd cell is [f64 |-> n], a text that reads as the decimal n (dollars),
\* or NotFloat, a text that is no f64 literal.
NotFloat == [invalid_float |-> TRUE]
parse_f64(cell) ==
    IF "f64" \in DOMAIN cell THEN Ok(cell.f64) ELSE Err("invalid float literal")

\* str::parse::<bool>, the reading of an is_taxable cell
parse_bool(s) ==
    IF Chars(s) = Chars("true") THEN Ok(TRUE)
    ELSE IF Chars(s) = Chars("false") THEN Ok(FALSE)
    ELSE Err("provided string was not true or false")

\* The record built from the results of its cells, or the first error: the
\* first failing cell in the order of the header's columns (a column that
\* names no field is skipped), or else the first field no column names.
visit_map(results, failed, missing) ==
    IF failed # << >> THEN Err(results[failed[1]].err)
    ELSE IF missing # << >> THEN Err("missing field " \o missing[1])
    ELSE Ok([name |-> results.name.ok, usd |-> results.usd.ok,
             frequency |-> results.frequency.ok, type_ |-> results.type_.ok,
             is_taxable |-> results.is_taxable.ok])

visit_columns(header, results) ==
    visit_map(results,
              SelectSeq(header, LAMBDA c : c \in DOMAIN results /\ ~IsOk(results[c])),
              SelectSeq(StructFields, LAMBDA c : \A i \in 1..Len(header) : header[i] # c))

\* type_from_str taking an unrecognized type for Other.
type_from_str_or_other(t) == IF IsOk(t) THEN t ELSE Ok("Other")

\* deserialize taking an unrecognized type for Other.
deserialize_default_type(header, r) ==
    visit_columns(header,
                  [name |-> Ok(r.name), usd |-> parse_f64(r.usd),
                   frequency |-> from_str(r.frequency),
                   type_ |-> type_from_str_or_other(type_from_str(r.type_)),
                   is_taxable |-> parse_bool(r.is_taxable)])

\* The derived Deserialize of CashEvent (lines 108-115) over one csv record
\* under the header of its file, with the Deserialize impls of Frequency
\* (66-74) and Type (98-106).  The cells are read in the order of the header's
\* columns, each by the parser of the field its column names, and the first
\* cell that fails is the error; then a field no column names is an error.
\* The header names no column twice and the record has a cell for each of
\* its columns.
deserialize(header, r) ==
    visit_columns(header,
                  [name |-> Ok(r.name), usd |-> parse_f64(r.usd),
                   frequency |-> from_str(r.frequency),
                   type_ |-> type_from_str(r.type_),
                   is_taxable |-> parse_bool(r.is_taxable)])

-----------------------------------------------------------------------------
(* CashEvent::get_monthly_amount, lines 134-163 *)

\* Money is counted in Unit-ths of a dollar; a tax rate in thousandths.
Unit == 12 * 1000

\* get_monthly_amount matching a OneTime date on its month alone.
get_monthly_amount_any_year(event, date, rate) ==
    LET taxed == IF event.is_taxable
                 THEN event.usd * (Unit \div 1000) * (1000 - rate)
                 ELSE event.usd * Unit
        f == event.frequency
    IN  IF f.tag = "OneTime"
        THEN IF f.date # None /\ date.month = f.date.month THEN taxed ELSE 0
        ELSE LET normalized ==
                    CASE f.tag = "Daily" -> taxed * 30
                      [] f.tag = "Weekly" -> (taxed * 9) \div 2
                      [] f.tag = "BiWeekly" -> (taxed * 9) \div 4
                      [] f.tag = "Monthly" -> taxed
                      [] f.tag = "Quarterly" -> taxed \div 3
                      [] f.tag = "Yearly" -> taxed \div 12
             IN  IF event.type_ = "Income" THEN normalized ELSE 0 - normalized

\* get_monthly_amount taxing Income events only.
get_monthly_amount_tax_income_only(event, date, rate) ==
    LET taxed == IF event.is_taxable /\ event.type_ = "Income"
                 THEN event.usd * (Unit \div 1000) * (1000 - rate)
                 ELSE event.usd * Unit
        f == event.frequency
    IN  IF f.tag = "OneTime"
        THEN IF f.date # None /\ date.month = f.date.month /\ date.year = f.date.year
             THEN taxed
             ELSE 0
        ELSE LET normalized ==
                    CASE f.tag = "Daily" -> taxed * 30
                      [] f.tag = "Weekly" -> (taxed * 9) \div 2
                      [] f.tag = "BiWeekly" -> (taxed * 9) \div 4
                      [] f.tag = "Monthly" -> taxed
                      [] f.tag = "Quarterly" -> taxed \div 3
                      [] f.tag = "Yearly" -> taxed \div 12
             IN  IF event.type_ = "Income" THEN normalized ELSE 0 - normalized

get_monthly_amount(event, date, rate) ==
    LET taxed == IF event.is_taxable
                 THEN event.usd * (Unit \div 1000) * (1000 - rate)
                 ELSE event.usd * Unit
        f == event.frequency
    IN  IF f.tag = "OneTime"
        THEN IF f.date # None /\ date.month = f.date.month /\ date.year = f.date.year
             THEN taxed
             ELSE 0
        ELSE LET normalized ==
                    CASE f.tag = "Daily" -> taxed * 30
                      [] f.tag = "Weekly" -> (taxed * 9) \div 2
                      [] f.tag = "BiWeekly" -> (taxed * 9) \div 4
                      [] f.tag = "Monthly" -> taxed
                      [] f.tag = "Quarterly" -> taxed \div 3
                      [] f.tag = "Yearly" -> taxed \div 12
             IN  IF event.type_ = "Income" THEN normalized ELSE 0 - normalized

\* get_monthly_amount over the list, lines 166-171
RECURSIVE sum_monthly_amount(_, _, _)
sum_monthly_amount(cash_events, date, rate) ==
    IF cash_events = << >> THEN 0
    ELSE get_monthly_amount(Head(cash_events), date, rate)
         + sum_monthly_amount(Tail(cash_events), date, rate)

-----------------------------------------------------------------------------
(* One row deserialized and projected on one month: inputs drawn in Init. *)

RecurringHeads ==
    {"d", "day", "daily", "w", "week", "weekly", "biweekly", "m", "month",
     "monthly", "quarter", "quarterly", "y", "year", "yearly",
     "Monthly", "DAILY", "BiWeekly", "Quarter", "YEAR",
     "fortnightly", "", "2", "monthlyy", " monthly", "bi-weekly",
     "WEE\\u{212A}", "wee\\u{212a}", "DA\\u{0130}LY", "\\u{C9}", "D\\u{03A3}",
     "\\u{79}ear", "\\\\u{79}ear",
     "monthly(2024-03-15)", "fortnightly(2024-03-15)", "(once)", "weekly)"}

OneTimeHeads == {"1", "once", "onetime", "ONCE"}

ArgSamples ==
    {"", "(2024-03-15)", "(2023-03-01)", "(2024-02-29)", "(2023-02-29)",
     "(2024-03-15", "()", "(03/15/2024)", "(2024-3-5)", "(soon)",
     "(2024-03-15) ", "(2024-13-01)", "(2024-03-15)(", " (2024-03-15)",
     "(\t2024-03-15)", "(2024-\\u{00A0}03- 15)"}

\* Arguments that are not in YYYY-MM-DD form: other orders and shapes, signed
\* and long years, numbers of other widths, text around the date.
LooseArgSamples ==
    {"(15-03-2024)", "(20240315)", "(2024-03)", "(2024-03-15x)", "(2024--03-15)",
     "(2024-003-15)", "(2024-00-10)", "(2024 -03-15)", "(- 2024-03-15)",
     "(0-1-1)", "(+2024-03-15)", "(-0001-03-15)", "(12345-01-01)",
     "(+12345-01-01)", "(+262143-01-01)", "(+0000000000000000000002024-03-15)",
     "(+3000000000-01-01)", "(+99999999999999999999-01-01)"}

FrequencySamples ==
    RecurringHeads \cup {h \o a : h \in OneTimeHeads, a \in ArgSamples}
    \cup {"once" \o a : a \in LooseArgSamples}

TypeSamples ==
    {"bill", "income", "investment", "sub", "subscription", "other",
     "Income", "salary", ""}

UsdSamples == {200, 1000}

\* 0.0 and the default 0.169 of line 257
RateSamples == {0, 169}

MonthSamples ==
    {[year |-> y, month |-> m, day |-> 1] : y \in Years, m \in {2, 3}}

\* Rows whose usd and is_taxable cells are well formed.
RowSamples ==
    [name : {"item"}, usd : {[f64 |-> n] : n \in UsdSamples},
     frequency : FrequencySamples, type_ : TypeSamples, is_taxable : {"true", "false"}]

\* Rows with cells of every kind, for the headers below.
IrregularRows ==
    [name : {"item"}, usd : {[f64 |-> 200], NotFloat},
     frequency : {"monthly", "fortnightly", "once(2024-03-15)"},
     type_ : {"bill", "present"}, is_taxable : {"true", "yes"}]

\* The header rows: the columns in the order of the struct, type_ before
\* frequency, no is_taxable column, and a column that names no field.
HeaderSamples ==
    {StructFields,
     <<"name", "usd", "type_", "frequency", "is_taxable">>,
     <<"name", "usd", "frequency", "type_">>,
     <<"note", "name", "usd", "frequency", "type_", "is_taxable">>}

EventInputs ==
    {[header |-> StructFields, row |-> r] : r \in RowSamples}
    \cup {[header |-> h, row |-> r] : h \in HeaderSamples, r \in IrregularRows}

InitEvent ==
    /\ pc = "row"
    /\ \E in \in EventInputs :
          /\ file = [header |-> in.header, rows |-> <<in.row>>, readable |-> TRUE]
          /\ row = in.row
    /\ month_date = None
    /\ tax_rate = 0
    /\ parsed = None
    /\ amount = 0
    /\ start_date = None /\ end_date = None /\ dates = << >>
    /\ argv = << >> /\ args = None /\ now = None /\ events = << >>
    /\ row_idx = 0 /\ date_idx = 0 /\ sum = 0 /\ stdout = << >> /\ panic = None
    /\ stderr = << >> /\ exit_code = None

\* Deserialize the row.
Deserialize ==
    /\ pc = "row"
    /\ parsed' = deserialize(file.header, row)
    /\ pc' = IF IsOk(parsed') THEN "event" ELSE "rejected"
    /\ UNCHANGED <<row, month_date, tax_rate, amount>>
    /\ UNCHANGED mainVars /\ UNCHANGED walkVars

\* Project the event on a month at a tax rate.
Project ==
    /\ pc = "event"
    /\ \E date \in MonthSamples, rate \in RateSamples :
          /\ month_date' = date
          /\ tax_rate' = rate
          /\ amount' = get_monthly_amount(parsed.ok, date, rate)
    /\ pc' = "projected"
    /\ UNCHANGED <<row, parsed>>
    /\ UNCHANGED mainVars /\ UNCHANGED walkVars

NextEvent == Deserialize \/ Project

SpecEvent == InitEvent /\ [][NextEvent]_vars

Abs(x) == IF x < 0 THEN 0 - x ELSE x

\* usd * (1 - tax_rate) for a taxable event, usd otherwise, in Unit-ths.
TaxedAmount(event, rate) ==
    IF event.is_taxable THEN event.usd * 12 * (1000 - rate) ELSE event.usd * 12 * 1000

\* Whether a OneTime frequency carries a date in the year and month of `date`.
MatchesMonth(f, date) ==
    f.date # None /\ f.date.year = date.year /\ f.date.month = date.month

\* Whether m is the taxed, frequency-normalized magnitude of the event for
\* the month: t * factor, stated without division.
IsMagnitude(m, event, date, rate) ==
    LET t == TaxedAmount(event, rate)
        tag == event.frequency.tag
    IN  CASE tag = "OneTime" -> m = IF MatchesMonth(event.frequency, date) THEN t ELSE 0
          [] tag = "Daily" -> m = 30 * t
          [] tag = "Weekly" -> 2 * m = 9 * t
          [] tag = "BiWeekly" -> 4 * m = 9 * t
          [] tag = "Monthly" -> m = t
          [] tag = "Quarterly" -> 3 * m = t
          [] tag = "Yearly" -> 12 * m = t

\* C1: for every event with a positive amount, every frequency variant, every
\* taxable flag and every month, get_monthly_amount returns +magnitude for
\* Income and -magnitude for Bill, Investment, Subscription and Other; no
\* event other than Income contributes a positive amount.
C1_SignFollowsType ==
    (pc = "projected" /\ parsed.ok.usd > 0) =>
        /\ IsMagnitude(IF parsed.ok.type_ = "Income" THEN amount ELSE 0 - amount,
                       parsed.ok, month_date, tax_rate)
        /\ parsed.ok.type_ # "Income" => amount <= 0

\* The OneTime arguments of the samples that carry no date: absent, not
\* closed, not a date, not a date of the calendar.
UndatedArgs ==
    {"", "(2024-03-15", "()", "(03/15/2024)", "(soon)", "(2023-02-29)", "(2024-13-01)",
     "(2024-03-15) "}

\* C7: a OneTime event's contribution has the magnitude of its full taxed
\* amount in the months whose year and month are those of its date, and is
\* zero in every other month and, when it is undated, in every month.
C7_OneTimeOnlyInItsMonth ==
    (pc = "projected" /\ parsed.ok.frequency.tag = "OneTime") =>
        /\ Abs(amount) = IF MatchesMonth(parsed.ok.frequency, month_date)
                          THEN TaxedAmount(parsed.ok, tax_rate)
                          ELSE 0
        /\ row.frequency \in {h \o a : h \in OneTimeHeads, a \in UndatedArgs} => amount = 0

\* A taxed OneTime event projected on the month of its date, which is not
\* the first of the month.
C7_Witness ==
    /\ pc = "projected"
    /\ row.frequency = "once(2024-03-15)"
    /\ parsed.ok.frequency.date.day = 15
    /\ month_date = [year |-> 2024, month |-> 3, day |-> 1]
    /\ parsed.ok.is_taxable /\ tax_rate = 169
    /\ Abs(amount) = parsed.ok.usd * 12 * 831

\* C8: a recurring event's contribution has magnitude t * f in every month,
\* with t = usd * (1 - tax_rate) if taxable and usd otherwise, whatever the
\* type, and f = 30, 4.5, 2.25, 1, 1/3, 1/12 for Daily, Weekly, BiWeekly,
\* Monthly, Quarterly, Yearly.
C8_RecurringMagnitude ==
    (pc = "projected" /\ parsed.ok.frequency.tag # "OneTime") =>
        LET t == TaxedAmount(parsed.ok, tax_rate)
            m == Abs(amount)
            tag == parsed.ok.frequency.tag
        IN  /\ tag \in {"Daily", "Weekly", "BiWeekly", "Monthly", "Quarterly", "Yearly"}
            /\ tag = "Daily" => m = 30 * t
            /\ tag = "Weekly" => 2 * m = 9 * t
            /\ tag = "BiWeekly" => 4 * m = 9 * t
            /\ tag = "Monthly" => m = t
            /\ tag = "Quarterly" => 3 * m = t
            /\ tag = "Yearly" => 12 * m = t
            /\ ~parsed.ok.is_taxable => t = parsed.ok.usd * Unit

\* A taxable weekly subscription at the default rate: 200 * 0.831 * 4.5 =
\* 747.9 dollars, subtracted.
C8_Witness ==
    /\ pc = "projected"
    /\ parsed.ok.frequency.tag = "Weekly"
    /\ parsed.ok.type_ = "Subscription"
    /\ parsed.ok.is_taxable /\ tax_rate = 169 /\ parsed.ok.usd = 200
    /\ 10 * amount = 0 - (7479 * Unit)

\* The frequency table of the specification: token -> variant.
TokenTable ==
    [t \in {Chars("1"), Chars("once"), Chars("onetime")} |-> "OneTime"]
    @@ [t \in {Chars("d"), Chars("day"), Chars("daily")} |-> "Daily"]
    @@ [t \in {Chars("w"), Chars("week"), Chars("weekly")} |-> "Weekly"]
    @@ [t \in {Chars("biweekly")} |-> "BiWeekly"]
    @@ [t \in {Chars("m"), Chars("month"), Chars("monthly")} |-> "Monthly"]
    @@ [t \in {Chars("quarter"), Chars("quarterly")} |-> "Quarterly"]
    @@ [t \in {Chars("y"), Chars("year"), Chars("yearly")} |-> "Yearly"]

\* The case-folded token of a frequency text: what precedes the first "(".
TokenOf(s) == split(to_lowercase(Chars(s)), Code("("))[1]

\* The variant the table gives the token of s, or "Invalid".
TableVariant(s) ==
    LET token == TokenOf(s)
    IN  IF token \in DOMAIN TokenTable THEN TokenTable[token] ELSE "Invalid"

\* The argument of a frequency text: whether there is one, whether it is
\* closed by ")", and the text between the parentheses.
HasArgument(s) == \E i \in 1..Len(Chars(s)) : Chars(s)[i] = Code("(")
ArgumentText(s) == split(to_lowercase(Chars(s)), Code("("))[2]
IsClosed(s) == Len(ArgumentText(s)) > 0 /\ ArgumentText(s)[Len(ArgumentText(s))] = Code(")")
Inner(s) == SubSeq(ArgumentText(s), 1, Len(ArgumentText(s)) - 1)

\* Ten characters, YYYY-MM-DD.
IsYmdForm(cs) ==
    /\ Len(cs) = 10
    /\ \A i \in {1, 2, 3, 4, 6, 7, 9, 10} : IsDigit(cs[i])
    /\ cs[5] = Code("-") /\ cs[8] = Code("-")

\* The text after the leading white space of a text.
Unspaced(cs) ==
    SubSeq(cs, 1 + Cardinality({k \in 1..Len(cs) : \A i \in 1..k : cs[i] \in WhiteSpace}),
           Len(cs))

\* A text of lo to hi digits and nothing else.
IsDigits(cs, lo, hi) ==
    Len(cs) >= lo /\ Len(cs) <= hi /\ \A i \in 1..Len(cs) : IsDigit(cs[i])

\* The number a text of digits writes when it is below a million, and a
\* million otherwise: more than any year, month or day of the calendar.
Numeral(cs) ==
    LET zeros == Cardinality({k \in 1..Len(cs) : \A i \in 1..k : cs[i] = Code("0")})
        n == Len(cs) - zeros
        digit(k) == IF k > n THEN 0 ELSE cs[Len(cs) + 1 - k] - Code("0")
    IN  IF n > 6 THEN 1000000
        ELSE digit(1) + 10 * digit(2) + 100 * digit(3) + 1000 * digit(4)
             + 10000 * digit(5) + 100000 * digit(6)

\* A year as the parser reads it: one to four digits, or a sign and then
\* one or more digits; and its number.
IsYearText(cs) ==
    \/ IsDigits(cs, 1, 4)
    \/ Len(cs) >= 2 /\ cs[1] \in {Code("+"), Code("-")} /\ IsDigits(Tail(cs), 1, Len(cs))
YearOf(cs) ==
    IF cs[1] = Code("-") THEN 0 - Numeral(Tail(cs))
    ELSE IF cs[1] = Code("+") THEN Numeral(Tail(cs))
    ELSE Numeral(cs)

\* The places <<i, j>> of the two "-" that part a text into a year, a month
\* of one or two digits and a day of one or two digits, each after optional
\* white space, with nothing else in the text: at most one such pair.
DateParts(cs) ==
    {ij \in (1..Len(cs)) \X (1..Len(cs)) :
        /\ ij[1] < ij[2] /\ cs[ij[1]] = Code("-") /\ cs[ij[2]] = Code("-")
        /\ IsYearText(Unspaced(SubSeq(cs, 1, ij[1] - 1)))
        /\ IsDigits(Unspaced(SubSeq(cs, ij[1] + 1, ij[2] - 1)), 1, 2)
        /\ IsDigits(Unspaced(SubSeq(cs, ij[2] + 1, Len(cs))), 1, 2)}

\* The date of the calendar with the given year, month and day, if any.
CalendarDate(y, m, d) ==
    IF /\ y >= MIN_YEAR /\ y <= MAX_YEAR /\ m >= 1 /\ m <= 12
       /\ d >= 1 /\ d <= DaysInMonth(y, m)
    THEN [year |-> y, month |-> m, day |-> d]
    ELSE None

DateAt(cs, ij) ==
    CalendarDate(YearOf(Unspaced(SubSeq(cs, 1, ij[1] - 1))),
                 Numeral(Unspaced(SubSeq(cs, ij[1] + 1, ij[2] - 1))),
                 Numeral(Unspaced(SubSeq(cs, ij[2] + 1, Len(cs)))))

\* The date a text names in that form, None when it is not of the form or
\* the calendar has no such date.
DateNamed(cs) ==
    IF DateParts(cs) = {} THEN None ELSE DateAt(cs, CHOOSE ij \in DateParts(cs) : TRUE)

\* The position of a column in the header of the file, 0 when it is absent.
ColumnIndex(c) ==
    IF \E i \in 1..Len(file.header) : file.header[i] = c
    THEN CHOOSE i \in 1..Len(file.header) : file.header[i] = c
    ELSE 0

\* No cell read before the frequency cell fails.
FrequencyReadFirst ==
    /\ row.usd # NotFloat
    /\ \/ ColumnIndex("type_") > ColumnIndex("frequency")
       \/ to_lowercase(Chars(row.type_)) \in
             {Chars("bill"), Chars("income"), Chars("investment"), Chars("sub"),
              Chars("subscription"), Chars("other")}

\* The frequency of the row is recognized exactly by the table, with the
\* table's variant: a token outside the table fails the row, with "Invalid
\* frequency" unless an earlier cell failed first, and a token of the table
\* never does.
FollowsTable ==
    /\ IsOk(parsed) => parsed.ok.frequency.tag = TableVariant(row.frequency)
    /\ TableVariant(row.frequency) = "Invalid" =>
          /\ ~IsOk(parsed)
          /\ FrequencyReadFirst => parsed = Err("Invalid frequency")
    /\ (TableVariant(row.frequency) # "Invalid" /\ ~IsOk(parsed)) =>
          parsed # Err("Invalid frequency")

\* C9: from_str succeeds exactly on the tokens of the table, with the table's
\* variant, and fails with "Invalid frequency" on every other token; for a
\* OneTime token an absent argument, a missing closing parenthesis or a date
\* not in YYYY-MM-DD form gives OneTime with no date.
C9_ParseContract ==
    pc # "row" =>
        /\ FollowsTable
        /\ (/\ IsOk(parsed) /\ parsed.ok.frequency.tag = "OneTime"
            /\ \/ ~HasArgument(row.frequency)
               \/ ~IsClosed(row.frequency)
               \/ ~IsYmdForm(Inner(row.frequency)))
           => parsed.ok.frequency.date = None

\* C9 as amended: the same table; for a OneTime token the result is OneTime
\* with no date when the argument is absent or not closed, and otherwise the
\* date the text between the parentheses names, if any, read as chrono reads
\* %Y-%m-%d: a year of one to four digits or of a sign and digits, "-", a
\* month and a day of one or two digits, each after optional white space.  A
\* YYYY-MM-DD text gives its date when the calendar has it; 2024-3-5 is
\* March 5, 2024; 15-03-2024, 20240315 and 2024-03 give no date.
C9_ParseContractLenientDate ==
    pc # "row" =>
        /\ FollowsTable
        /\ (IsOk(parsed) /\ parsed.ok.frequency.tag = "OneTime") =>
              LET date == parsed.ok.frequency.date
                  closed == HasArgument(row.frequency) /\ IsClosed(row.frequency)
                  inner == Inner(row.frequency)
              IN  /\ ~closed => date = None
                  /\ closed => date = DateNamed(inner)
                  /\ (closed /\ IsYmdForm(inner))
                     => date = CalendarDate(Numeral(SubSeq(inner, 1, 4)),
                                            Numeral(SubSeq(inner, 6, 7)),
                                            Numeral(SubSeq(inner, 9, 10)))
                  /\ (closed /\ inner = Chars("2024-3-5"))
                     => date = [year |-> 2024, month |-> 3, day |-> 5]
                  /\ (closed /\ inner \in {Chars("\t2024-03-15"), Chars("2024-\\u{00A0}03- 15")})
                     => date = [year |-> 2024, month |-> 3, day |-> 15]
                  /\ (closed /\ inner \in {Chars("15-03-2024"), Chars("20240315"),
                                           Chars("2024-03"), Chars("")})
                     => date = None

\* An upper-case OneTime token with an unpadded date: accepted, and dated.
C9_Witness ==
    /\ pc = "event"
    /\ row.frequency = "ONCE(2024-3-5)"
    /\ parsed.ok.frequency = OneTime([year |-> 2024, month |-> 3, day |-> 5])

-----------------------------------------------------------------------------
(* main, lines 261-292 *)

\* default_value of --months, line 254, and of --tax-rate, line 257, in
\* thousandths
DefaultMonths == 12
DefaultTaxRate == 169

\* A horizon that carries any sampled date past NaiveDate::MAX.
OverflowMonths == 12 * (MAX_YEAR + 1)

HorizonSamples == (0..MaxMonths) \cup {DefaultMonths, OverflowMonths}

\* The local date at invocation: days of the sampled years, and the last
\* days of the last two months chrono represents.
NowSamples ==
    {[year |-> y, month |-> md[1], day |-> md[2]] :
        y \in Years, md \in {<<1, 15>>, <<1, 30>>, <<1, 31>>, <<11, 30>>, <<12, 1>>}}
    \cup {[year |-> MAX_YEAR, month |-> 11, day |-> 30],
          [year |-> MAX_YEAR, month |-> 12, day |-> 31]}

MainRows ==
    {[name |-> "salary", usd |-> [f64 |-> 1000], frequency |-> "Monthly", type_ |-> "income", is_taxable |-> "false"],
     [name |-> "rent", usd |-> [f64 |-> 200], frequency |-> "monthly", type_ |-> "bill", is_taxable |-> "false"],
     [name |-> "bonus", usd |-> [f64 |-> 500], frequency |-> "once(2024-02-10)", type_ |-> "Income", is_taxable |-> "true"],
     [name |-> "gym", usd |-> [f64 |-> 30], frequency |-> "fortnightly", type_ |-> "sub", is_taxable |-> "false"],
     [name |-> "gift", usd |-> [f64 |-> 50], frequency |-> "yearly", type_ |-> "present", is_taxable |-> "false"]}

\* The header rows of the sampled files: the columns in the order of the
\* struct, type_ before frequency, and no is_taxable column.
MainHeaders ==
    {StructFields,
     <<"name", "usd", "type_", "frequency", "is_taxable">>,
     <<"name", "usd", "frequency", "type_">>}

RECURSIVE SeqsUpTo(_, _)
SeqsUpTo(S, n) ==
    IF n = 0 THEN {<< >>}
    ELSE LET shorter == SeqsUpTo(S, n - 1)
         IN  shorter \cup {Append(q, x) : q \in shorter, x \in S}

\* The file at cash_events_file_path when the program starts: absent
\* (NoFile), or its header row, the rows after it and whether the program
\* may open it.  The sampled files that may not be opened hold one row.
NoFile == None
FileSamples ==
    {NoFile}
    \cup {[header |-> h, rows |-> q, readable |-> TRUE] :
             h \in MainHeaders, q \in SeqsUpTo(MainRows, MaxRows)}
    \cup {[header |-> StructFields, rows |-> <<r>>, readable |-> FALSE] : r \in MainRows}

\* date.format("%Y-%m")
format_ym(date) == <<date.year, date.month>>

\* The command line is the sequence of its arguments as clap reads them, each
\* one of: the flag -v/--verbose; the option -m/--months with its value, a
\* text that reads as a u32 ([u32 |-> n]) or does not (NotU32); the option
\* -t/--tax-rate with its value, a text that reads as the f64 of r thousandths
\* ([thousandths |-> r]) or is no f64 (NotFloat); the option
\* -c/--cash-events-file-path with its value; -h/--help; -V/--version; and
\* an argument Args does not declare.
NotU32 == [invalid_u32 |-> TRUE]
Verbose == [arg |-> "verbose"]
MonthsArg(v) == [arg |-> "months", value |-> v]
TaxRateArg(v) == [arg |-> "tax_rate", value |-> v]
PathArg(path) == [arg |-> "cash_events_file_path", value |-> [path |-> path]]
Help == [arg |-> "help"]
Version == [arg |-> "version"]
Unexpected == [arg |-> "unexpected"]

\* The defaults of Args, lines 247-259
DefaultArgs ==
    [verbose |-> FALSE, cash_events_file_path |-> "data/cash_events.csv",
     months |-> DefaultMonths, tax_rate |-> DefaultTaxRate]

\* The outcomes of Args::parse that end the process: the help or the version
\* on standard output and exit status 0, or a usage error on standard error
\* and exit status 2.
DisplayHelp == [display |-> "help"]
DisplayVersion == [display |-> "version"]
UsageError == [usage_error |-> TRUE]

\* The value parser of an option: u32 for months, f64 for tax_rate, String
\* for cash_events_file_path.
value_ok(a) ==
    CASE a.arg = "months" -> "u32" \in DOMAIN a.value
      [] a.arg = "tax_rate" -> "thousandths" \in DOMAIN a.value
      [] a.arg = "cash_events_file_path" -> TRUE

parsed_value(a) ==
    CASE a.arg = "months" -> a.value.u32
      [] a.arg = "tax_rate" -> a.value.thousandths
      [] a.arg = "cash_events_file_path" -> a.value.path

\* Args with the field of argument a set.
with_arg(m, a) ==
    IF a.arg = "verbose" THEN [m EXCEPT !.verbose = TRUE]
    ELSE [m EXCEPT ![a.arg] = parsed_value(a)]

\* clap's parser over the arguments from position i on, left to right, with
\* the arguments `seen` so far and their values in m: the first -h or -V ends
\* the parse with the help or the version; an undeclared argument, an argument
\* given twice or a value its parser rejects ends it with a usage error;
\* at the end the fields not given keep their defaults.
RECURSIVE get_matches(_, _, _, _)
get_matches(av, i, seen, m) ==
    IF i > Len(av) THEN Ok(m)
    ELSE IF av[i].arg = "help" THEN DisplayHelp
    ELSE IF av[i].arg = "version" THEN DisplayVersion
    ELSE IF av[i].arg = "unexpected" THEN UsageError
    ELSE IF av[i].arg \in seen THEN UsageError
    ELSE IF av[i].arg # "verbose" /\ ~value_ok(av[i]) THEN UsageError
    ELSE get_matches(av, i + 1, seen \cup {av[i].arg}, with_arg(m, av[i]))

\* Args::parse(), line 262
Args_parse(av) == get_matches(av, 1, {}, DefaultArgs)

\* The sampled command lines: every sampled horizon with and without
\* --verbose (the default horizon by leaving --months out), other options,
\* and the command lines that end the run at line 262.
ArgvSamples ==
    {v \o m : v \in {<< >>, <<Verbose>>},
              m \in {<< >>} \cup {<<MonthsArg([u32 |-> n])>> : n \in HorizonSamples \ {DefaultMonths}}}
    \cup {<<TaxRateArg([thousandths |-> 0])>>,
          <<PathArg("events.csv"), MonthsArg([u32 |-> DefaultMonths])>>,
          <<Help>>, <<Version>>, <<Verbose, Help>>, <<Help, Unexpected>>,
          <<MonthsArg([u32 |-> 2]), Version, Help>>,
          <<Unexpected>>, <<Unexpected, Help>>, <<Verbose, Verbose>>,
          <<MonthsArg(NotU32)>>, <<Verbose, MonthsArg(NotU32), Help>>,
          <<TaxRateArg(NotFloat)>>,
          <<MonthsArg([u32 |-> 2]), MonthsArg([u32 |-> 3])>>}

Init ==
    /\ pc = "parse"
    /\ argv \in ArgvSamples
    /\ args = None
    /\ now \in NowSamples
    /\ file \in FileSamples
    /\ start_date = None /\ end_date = None /\ dates = << >>
    /\ events = << >> /\ row_idx = 0 /\ date_idx = 0 /\ sum = 0
    /\ stdout = << >> /\ panic = None
    /\ stderr = << >> /\ exit_code = None
    /\ IdleEvent

\* What Args::parse does with the outcome r of the parse: the process goes
\* on with the Args, or writes and exits.
ParseOutcome(r) ==
    IF IsOk(r)
    THEN /\ args' = r.ok /\ pc' = "start"
         /\ UNCHANGED <<stdout, stderr, exit_code>>
    ELSE IF "display" \in DOMAIN r
    THEN /\ stdout' = Append(stdout, [kind |-> r.display])
         /\ exit_code' = Some(0) /\ pc' = "exited"
         /\ UNCHANGED <<args, stderr>>
    ELSE /\ stderr' = Append(stderr, [kind |-> "usage_error"])
         /\ exit_code' = Some(2) /\ pc' = "exited"
         /\ UNCHANGED <<args, stdout>>

\* Line 262: Args::parse().
ParseArgs ==
    /\ pc = "parse"
    /\ ParseOutcome(Args_parse(argv))
    /\ UNCHANGED <<argv, now, file, events, row_idx, date_idx, sum, panic>>
    /\ UNCHANGED walkVars /\ UNCHANGED eventVars

\* A panic of main: the message on standard error, exit status 101.
Panicked(msg) ==
    /\ panic' = Some(msg)
    /\ stderr' = Append(stderr, [kind |-> "panic", message |-> msg])
    /\ exit_code' = Some(101)
    /\ pc' = "panicked"

\* Lines 264-269: start_date, end_date and the enumerated months.
ComputeHorizon ==
    /\ pc = "start"
    /\ start_date' = now
    /\ LET e == checked_add_months(now, args.months)
       IN  IF e = None
           THEN /\ end_date' = None /\ dates' = << >>
                /\ Panicked("Invalid date")
           ELSE LET r == get_first_day_of_months_between(now, e)
                IN  /\ end_date' = e /\ dates' = r.value
                    /\ IF r.panicked THEN Panicked("Invalid date")
                       ELSE /\ pc' = "open"
                            /\ UNCHANGED <<panic, stderr, exit_code>>
    /\ UNCHANGED <<argv, args, now, file, events, row_idx, date_idx, sum, stdout>>
    /\ UNCHANGED eventVars

\* Lines 271-273: open the file and start with no events.
OpenFile ==
    /\ pc = "open"
    /\ IF file = NoFile \/ ~file.readable
       THEN Panicked("Unable to open file")
       ELSE pc' = "read" /\ UNCHANGED <<panic, stderr, exit_code>>
    /\ events' = << >>
    /\ UNCHANGED <<argv, args, now, file, row_idx, date_idx, sum, stdout>>
    /\ UNCHANGED walkVars /\ UNCHANGED eventVars

\* Lines 274-280: one iteration of the reader loop.
ReadRecord ==
    /\ pc = "read"
    /\ row_idx < Len(file.rows)
    /\ LET result == deserialize(file.header, file.rows[row_idx + 1])
       IN  IF ~IsOk(result)
           THEN /\ Panicked("Unable to parse record")
                /\ UNCHANGED <<events, stdout>>
           ELSE /\ stdout' = IF args.verbose
                             THEN Append(stdout, [kind |-> "event", event |-> result.ok])
                             ELSE stdout
                /\ events' = Append(events, result.ok)
                /\ UNCHANGED <<panic, stderr, exit_code, pc>>
    /\ row_idx' = row_idx + 1
    /\ UNCHANGED <<argv, args, now, file, date_idx, sum>>
    /\ UNCHANGED walkVars /\ UNCHANGED eventVars

\* End of the reader loop; line 282.
EndOfFile ==
    /\ pc = "read"
    /\ row_idx = Len(file.rows)
    /\ sum' = 0
    /\ pc' = "report"
    /\ UNCHANGED <<argv, args, now, file, events, row_idx, date_idx, stdout, panic,
                   stderr, exit_code>>
    /\ UNCHANGED walkVars /\ UNCHANGED eventVars

\* ReportMonth with sum = monthly_amount in place of sum += monthly_amount.
ReportMonthNoAccumulate ==
    /\ pc = "report"
    /\ date_idx < Len(dates)
    /\ LET date == dates[date_idx + 1]
           monthly_amount == sum_monthly_amount(events, date, args.tax_rate)
       IN  /\ sum' = monthly_amount
           /\ stdout' = Append(stdout, [kind |-> "report", month |-> format_ym(date),
                                        monthly_amount |-> monthly_amount, sum |-> sum'])
    /\ date_idx' = date_idx + 1
    /\ UNCHANGED <<argv, args, now, file, events, row_idx, panic, stderr, exit_code, pc>>
    /\ UNCHANGED walkVars /\ UNCHANGED eventVars

\* Lines 283-291: one iteration of the report loop.
ReportMonth ==
    /\ pc = "report"
    /\ date_idx < Len(dates)
    /\ LET date == dates[date_idx + 1]
           monthly_amount == sum_monthly_amount(events, date, args.tax_rate)
       IN  /\ sum' = sum + monthly_amount
           /\ stdout' = Append(stdout, [kind |-> "report", month |-> format_ym(date),
                                        monthly_amount |-> monthly_amount, sum |-> sum'])
    /\ date_idx' = date_idx + 1
    /\ UNCHANGED <<argv, args, now, file, events, row_idx, panic, stderr, exit_code, pc>>
    /\ UNCHANGED walkVars /\ UNCHANGED eventVars

\* End of the report loop: main returns, exit status 0.
Exit ==
    /\ pc = "report"
    /\ date_idx = Len(dates)
    /\ pc' = "done"
    /\ exit_code' = Some(0)
    /\ UNCHANGED <<argv, args, now, file, events, row_idx, date_idx, sum, stdout, panic,
                   stderr>>
    /\ UNCHANGED walkVars /\ UNCHANGED eventVars

Next == ParseArgs \/ ComputeHorizon \/ OpenFile \/ ReadRecord \/ EndOfFile \/ ReportMonth \/ Exit

Spec == Init /\ [][Next]_vars

\* The report lines of standard output.
ReportLines == SelectSeq(stdout, LAMBDA l : l.kind = "report")

\* Whether a row carries a frequency token or a type token outside the tables.
TypeNames ==
    {Chars("bill"), Chars("income"), Chars("investment"), Chars("sub"),
     Chars("subscription"), Chars("other")}
RowUnrecognized(r) ==
    \/ TableVariant(r.frequency) = "Invalid"
    \/ to_lowercase(Chars(r.type_)) \notin TypeNames

\* Whether a row fails to parse under the header of the file: a token outside
\* the tables, a cell that is no decimal or no boolean, or a field without
\* a column.
RowFails(r) ==
    \/ RowUnrecognized(r)
    \/ r.usd = NotFloat
    \/ Chars(r.is_taxable) \notin {Chars("true"), Chars("false")}
    \/ \E k \in 1..Len(StructFields) : ColumnIndex(StructFields[k]) = 0

\* The number of rows before the first unrecognized one, and before the
\* first that fails to parse.
RowsBeforeFirstUnrecognized ==
    (CHOOSE k \in 1..Len(file.rows) :
        /\ RowUnrecognized(file.rows[k])
        /\ \A j \in 1..(k - 1) : ~RowUnrecognized(file.rows[j])) - 1

RowsBeforeFirstFailing ==
    (CHOOSE k \in 1..Len(file.rows) :
        /\ RowFails(file.rows[k])
        /\ \A j \in 1..(k - 1) : ~RowFails(file.rows[j])) - 1

FileHasUnrecognizedRow ==
    file # NoFile /\ \E k \in 1..Len(file.rows) : RowUnrecognized(file.rows[k])

\* C2: when a row of the file, at any position, carries an unrecognized
\* frequency or type token, the run aborts whatever the flags, and at the
\* abort nothing has been written to standard output.
C2_NothingWrittenBeforeAbort ==
    FileHasUnrecognizedRow =>
        /\ pc # "done"
        /\ stdout = << >>

\* Whether the horizon of the run cannot be enumerated: the month
\* args.months after the month of `now` is past the last year of chrono's
\* calendar, or end_date is the last day of that calendar.
HorizonOutOfRange ==
    \/ (now.year * 12 + now.month - 1 + args.months) \div 12 > MAX_YEAR
    \/ /\ now.year * 12 + now.month - 1 + args.months = MAX_YEAR * 12 + 11
       /\ now.day = 31

\* Whether the i-th argument of the command line ends the run at line 262:
\* it asks for the help or the version, is not declared, repeats an earlier
\* argument, or carries a value that is no u32 (--months), no f64 (--tax-rate).
EndsTheRun(i) ==
    \/ argv[i].arg \in {"help", "version", "unexpected"}
    \/ \E j \in 1..(i - 1) : argv[j].arg = argv[i].arg
    \/ argv[i].arg = "months" /\ argv[i].value = NotU32
    \/ argv[i].arg = "tax_rate" /\ argv[i].value = NotFloat

\* The first such argument, 0 when there is none.
FirstEnding ==
    IF \E i \in 1..Len(argv) : EndsTheRun(i)
    THEN CHOOSE i \in 1..Len(argv) : EndsTheRun(i) /\ \A j \in 1..(i - 1) : ~EndsTheRun(j)
    ELSE 0

\* C2 as amended: no report line is ever written and the run never completes.
\* When the command line asks for the help or the version, or clap rejects
\* it, the run ends at line 262 with only that text on standard output and
\* exit status 0, or with nothing on standard output and exit status 2.
\* Otherwise the run aborts.  When the horizon cannot be enumerated it aborts
\* with "Invalid date" before it opens the file, and when the file cannot be
\* opened it aborts with "Unable to open file"; in both cases no row is read
\* and nothing is written.  Otherwise it aborts at the first row that fails
\* to parse (the first unrecognized row or a row before it): without
\* --verbose nothing is written, and with --verbose exactly the events of the
\* rows before that row have been echoed at the abort.
C2_NoReportBeforeAbort ==
    FileHasUnrecognizedRow =>
        /\ pc \in {"parse", "exited", "start", "open", "read", "panicked"}
        /\ ReportLines = << >>
        /\ pc = "parse" => stdout = << >>
        /\ pc = "exited" =>
              /\ FirstEnding # 0
              /\ row_idx = 0 /\ panic = None
              /\ IF argv[FirstEnding].arg \in {"help", "version"}
                 THEN exit_code = Some(0) /\ stdout = <<[kind |-> argv[FirstEnding].arg]>>
                 ELSE exit_code = Some(2) /\ stdout = << >>
        /\ pc \in {"start", "open", "read", "panicked"} =>
              /\ FirstEnding = 0
              /\ args.verbose <=> \E i \in 1..Len(argv) : argv[i] = Verbose
              /\ ~args.verbose => stdout = << >>
              /\ pc \in {"open", "read"} => ~HorizonOutOfRange
              /\ pc = "read" => file.readable
              /\ pc = "panicked" =>
                    /\ exit_code = Some(101)
                    /\ IF HorizonOutOfRange
                       THEN /\ panic = Some("Invalid date")
                            /\ row_idx = 0
                            /\ stdout = << >>
                       ELSE IF ~file.readable
                       THEN /\ panic = Some("Unable to open file")
                            /\ row_idx = 0
                            /\ stdout = << >>
                       ELSE /\ panic = Some("Unable to parse record")
                            /\ row_idx = RowsBeforeFirstFailing + 1
                            /\ RowsBeforeFirstFailing <= RowsBeforeFirstUnrecognized
                            /\ args.verbose =>
                                  stdout = [k \in 1..RowsBeforeFirstFailing |->
                                               [kind |-> "event",
                                                event |-> deserialize(file.header, file.rows[k]).ok]]

\* A verbose run aborted on its second row, the first already echoed.
C2_Witness ==
    /\ pc = "panicked"
    /\ panic = Some("Unable to parse record")
    /\ args.verbose
    /\ FileHasUnrecognizedRow
    /\ RowsBeforeFirstUnrecognized = 1
    /\ RowsBeforeFirstFailing = 1
    /\ Len(stdout) = 1 /\ stdout[1].kind = "event"

\* The calendar month `months` after the month of `date`.
TargetMonth(date, months) == MonthIndex(date) + months
TargetYear(date, months) == TargetMonth(date, months) \div 12
TargetDays(date, months) ==
    DaysInMonth(TargetYear(date, months), (TargetMonth(date, months) % 12) + 1)

\* C3: when start_date's day-of-month does not exist in the target month the
\* run ends with the calendar error and no report, and the day is never
\* clamped; when the day exists, end_date has start_date's day-of-month.
C3_NoClamping ==
    pc \notin {"parse", "exited", "start"} =>
        IF now.day > TargetDays(now, args.months)
        THEN /\ pc = "panicked" /\ panic = Some("Invalid date")
             /\ stdout = << >>
        ELSE end_date # None => end_date.day = now.day

\* C3 as amended: when the day does not exist in the target month, end_date
\* is the last day of the target month and the run goes on; when it exists,
\* end_date has the same day-of-month; the calendar error, with nothing
\* written, arises exactly when the target month is past NaiveDate::MAX or
\* end_date is NaiveDate::MAX itself, past which the enumeration cannot step.
C3_ClampsToLastDay ==
    pc \notin {"parse", "exited", "start"} =>
        /\ start_date = now
        /\ IF TargetYear(now, args.months) > MAX_YEAR
           THEN /\ pc = "panicked" /\ panic = Some("Invalid date")
                /\ stdout = << >>
           ELSE /\ end_date # None
                /\ MonthIndex(end_date) = TargetMonth(now, args.months)
                /\ end_date.day = Min(now.day, TargetDays(now, args.months))
                /\ panic = Some("Invalid date") <=>
                      end_date = [year |-> MAX_YEAR, month |-> 12, day |-> 31]
                /\ panic = Some("Invalid date") => pc = "panicked" /\ stdout = << >>

\* A finished run whose start day (30 or 31) the target month lacks:
\* end_date is the last day of a February.
C3_Witness ==
    /\ pc = "done"
    /\ now.day > TargetDays(now, args.months)
    /\ end_date.month = 2 /\ end_date.day \in {28, 29}
    /\ ReportLines # << >>

RECURSIVE SumSeq(_)
SumSeq(q) == IF q = << >> THEN 0 ELSE Head(q) + SumSeq(Tail(q))

\* The net of a month: get_monthly_amount summed over the loaded events.
NetOfMonth(date) ==
    SumSeq([k \in 1..Len(events) |->
               get_monthly_amount(events[k], date, args.tax_rate)])

\* The loaded events are the rows of the file, all of them, in file order.
AllRowsLoaded ==
    /\ Len(events) = Len(file.rows)
    /\ \A k \in 1..Len(events) : Ok(events[k]) = deserialize(file.header, file.rows[k])

ExampleRows ==
    <<[name |-> "salary", usd |-> [f64 |-> 1000], frequency |-> "Monthly", type_ |-> "income", is_taxable |-> "false"],
      [name |-> "rent", usd |-> [f64 |-> 200], frequency |-> "monthly", type_ |-> "bill", is_taxable |-> "false"]>>

\* C6: the report lines are one per enumerated month in ascending order; the
\* net of a line is the sum of get_monthly_amount over all loaded events for
\* its month, and its cumulative total is the sum of the nets of the lines up
\* to it.  With [Income 1000 Monthly, Bill 200 Monthly] every net is 800 and
\* the cumulative total of the second line is 1600.
C6_CumulativeTotals ==
    pc \in {"report", "done"} =>
        LET lines == ReportLines
        IN  /\ AllRowsLoaded
            /\ Len(lines) = date_idx
            /\ pc = "done" => Len(lines) = Len(dates)
            /\ sum = SumSeq([i \in 1..Len(lines) |-> lines[i].monthly_amount])
            /\ \A i \in 1..Len(lines) :
                  /\ lines[i].month = format_ym(dates[i])
                  /\ lines[i].monthly_amount = NetOfMonth(dates[i])
                  /\ lines[i].sum =
                        SumSeq([j \in 1..i |-> lines[j].monthly_amount])
                  /\ i > 1 => MonthIndex(dates[i - 1]) < MonthIndex(dates[i])
                  /\ file.rows = ExampleRows =>
                        /\ lines[i].monthly_amount = 800 * Unit
                        /\ i = 2 => lines[i].sum = 1600 * Unit
            /\ \A i \in 1..Len(stdout) :
                  stdout[i].kind = "report" => i > Len(stdout) - Len(lines)

\* The example of the specification, finished: 800 a month, 1600 after two.
C6_Witness ==
    /\ pc = "done"
    /\ file.rows = ExampleRows
    /\ args.months = 2
    /\ Len(ReportLines) = 3
    /\ ReportLines[2].monthly_amount = 800 * Unit
    /\ ReportLines[2].sum = 1600 * Unit

\* C10: a successful run with horizon m writes exactly m + 1 report lines,
\* the first for the month of the current date and the last for the month of
\* end_date, and its final cumulative total covers those m + 1 months.
C10_OneLineMoreThanHorizon ==
    pc = "done" =>
        LET lines == ReportLines
        IN  /\ Len(lines) = args.months + 1
            /\ lines[1].month = format_ym(now)
            /\ lines[Len(lines)].month = format_ym(end_date)
            /\ MonthIndex(end_date) = MonthIndex(now) + args.months
            /\ sum = SumSeq([i \in 1..(args.months + 1) |->
                                NetOfMonth(FirstOfMonth(MonthIndex(now) + i - 1))])

\* The default horizon of 12 months, finished with 13 lines.
C10_Witness ==
    /\ pc = "done"
    /\ args.months = DefaultMonths
    /\ Len(ReportLines) = 13
    /\ events # << >>

=============================================================================
